---------------------------- MODULE Spec2Model ----------------------------
(***************************************************************************)
(* A model of @ouroboros/brain-react (src/src/index.ts, the variant with   *)
(* two-level permissions, lines 554-1234): the user store, the permission  *)
(* store, the scoped subscription registries and the session sync          *)
(* operations.                                                             *)
(*                                                                         *)
(* JavaScript strings are sequences of symbols, so that the registry key   *)
(* `${name}:${id}` is a real concatenation and k.split(':') a real split;  *)
(* functions, undefined and null are one-symbol sequences of their own.    *)
(* JavaScript objects are functions from strings to values, {} is the      *)
(* empty function <<>>.  Objects whose key order the code iterates         *)
(* (_rightsSubscriptions) are sequences of [key, subs] entries in          *)
(* insertion order.                                                        *)
(***************************************************************************)
EXTENDS Integers, Sequences, FiniteSets, TLC

VARIABLES
    _user,                      \* the current user, or false
    _userSubscriptions,         \* callbacks of the user store
    _permissions,               \* name -> id -> rights
    _permissionsSubscriptions,  \* callbacks of the all-permissions scope
    _rightsSubscriptions,       \* key -> callbacks, in insertion order
    _rightsAllSubscriptions,    \* name -> callbacks, in insertion order
    _noSession,                 \* the registered no-session callback
    session,                    \* the token held by brain.session()
    promises,                   \* the promises returned by the async calls
    op,                         \* history: the step that ran last
    ret,                        \* history: what it returned, threw or settled
    calls,                      \* history: the callbacks it invoked, in order
    refs,                       \* history: the object each call was passed
    held,                       \* history: what each observer was passed last
    replaced,                   \* history: per call, whether the step had
                                \* assigned _permissions when it was made
    resolved,                   \* history: the user object the step resolved
                                \* its promise with
    walked                      \* what set and permissionsSet, run over the
                                \* observer lists as they stand, call and leave

vars == << _user, _userSubscriptions, _permissions, _permissionsSubscriptions,
           _rightsSubscriptions, _rightsAllSubscriptions, _noSession, session,
           promises, op, ret, calls, refs, held, replaced,
           resolved, walked >>

stores == << _user, _permissions, session >>

registries == << _userSubscriptions, _permissionsSubscriptions,
                 _rightsSubscriptions, _rightsAllSubscriptions >>

\* the observer lists the set and permissionsSet loops walk
lists == << _userSubscriptions, _permissionsSubscriptions, _rightsSubscriptions >>

----------------------------------------------------------------------------
(* Bounds of the model *)

\* observer-list entries held when a subscribe call is still made: the
\* registrations of all lists and the keys of _rightsAllSubscriptions
MaxSubs == 2
\* promises of async calls held at one time
MaxPromises == 1
\* names, and (name, id) entries, of a raw permission map sent by the server
MaxNames == 1
MaxEntries == 1
\* the largest raw bit-flag value tried on the rights codec
MaxRaw == 31
\* registrations the module starts with where lists are drawn
MaxRegistered == 3

----------------------------------------------------------------------------
(* Values *)

\* the separator of the registry keys
COLON == ":"

\* the value of an omitted argument
undefined == <<"undefined">>

\* the user store's value when nobody is signed in
false == [signedIn |-> FALSE]

\* the cleared session token
null == <<"null">>

\* the value true, a record as false is
true == [signedIn |-> TRUE]

\* '012345679abc4defa0123456789abcde' in @ouroboros/brain, one symbol here
RIGHTS_ALL_ID == <<"0">>

\* the callbacks the application owns (functions, compared by identity); these
\* do nothing but take what they are passed
Callbacks == { <<"f">>, <<"g">> }

\* callbacks that, notified on a replace, call unsubscribe() of the handle
\* their subscription returned (they get no handle before subscribe returns)
Unsubscribers == { <<"u">> }

\* callbacks that, notified on a replace, subscribe the callback g to the list
\* they are notified from, unless g is registered there
Subscribers == { <<"s">> }

\* callbacks that, notified on a replace, call the unsubscribe() of the handle
\* permissionsSubscribe(f, 'a', 'b') returned
Removers == { <<"r">> }

\* the functions the application passes to onNoSession
NoSessionCallbacks == { <<"n">>, <<"m">> }

\* a value that is not a function
NotAFunction == <<"not a function">>

\* permission names and entity ids the application and the server use
Names == { <<"a">>, <<"a", COLON, "b">> }
Ids == { <<"b">>, RIGHTS_ALL_ID }

\* the (name, id) arguments of the scoped calls: none, a name, a name and an id
Scopes ==
    { <<undefined, undefined>> } \cup (Names \X {undefined}) \cup (Names \X Ids)

\* raw bit flags the server sends
RawValues == {3}

\* error values a rejected request carries: a transport error, and one the
\* transport marked as handled (it carries a handle function)
Errors == { [code |-> "E", msg |-> "failed"],
            [code |-> "E", msg |-> "failed", handle |-> <<"handle">>] }

\* session tokens the application signs in with
Tokens == { <<"t">> }

\* the {email, passwd} object signin() is called with, which the code only
\* passes on: one symbol
Credentials == { <<"credentials">> }

\* what a create-signin request resolves with when it succeeds
SigninReturns == { [session |-> <<"s">>] }

\* the object of fields signup() is called with, passed on as well
SignupFields == { <<"fields">> }

----------------------------------------------------------------------------
(* JavaScript primitives the code uses *)

\* typeof v === 'string'
IsString(v) == v \in Tokens

\* a & b on non-negative integers
RECURSIVE BitAnd(_, _)
BitAnd(a, b) ==
    IF a = 0 \/ b = 0 THEN 0
    ELSE (a % 2) * (b % 2) + 2 * BitAnd(a \div 2, b \div 2)

\* clone(v): a deep copy, which as a value is v
clone(v) == v

\* `${name}:${id}`
Key(name, id) == name \o <<COLON>> \o id

\* k.split(':')
RECURSIVE split(_)
split(k) ==
    IF \A i \in 1..Len(k) : k[i] # COLON THEN <<k>>
    ELSE LET i == CHOOSE i \in 1..Len(k) :
                      k[i] = COLON /\ \A j \in 1..(i - 1) : k[j] # COLON
         IN  <<SubSeq(k, 1, i - 1)>> \o split(SubSeq(k, i + 1, Len(k)))

\* the n-th variable of a destructuring assignment [x, y] = parts
Destructure(parts, n) == IF n <= Len(parts) THEN parts[n] ELSE undefined

\* mutant of indexOf: the index of the last occurrence (lastIndexOf)
indexOfLast(arr, x) ==
    IF \E i \in 1..Len(arr) : arr[i] = x
    THEN (CHOOSE i \in 1..Len(arr) :
              arr[i] = x /\ \A j \in (i + 1)..Len(arr) : arr[j] # x) - 1
    ELSE -1

\* arr.indexOf(x): the 0-based index of the first occurrence, or -1
indexOf(arr, x) ==
    IF \E i \in 1..Len(arr) : arr[i] = x
    THEN (CHOOSE i \in 1..Len(arr) :
              arr[i] = x /\ \A j \in 1..(i - 1) : arr[j] # x) - 1
    ELSE -1

\* mutant of splice: removes the last element whatever the index
splicePop(arr, i) == SubSeq(arr, 1, Len(arr) - 1)

\* arr.splice(i, 1): arr without the element at 0-based index i
splice(arr, i) == SubSeq(arr, 1, i) \o SubSeq(arr, i + 2, Len(arr))

\* typeof v === 'function'
IsFunction(v) == v \in Callbacks \cup NoSessionCallbacks

----------------------------------------------------------------------------
(* Objects used as ordered maps: sequences of [key, subs] entries *)

\* Object.keys(reg), as a set
KeysOf(reg) == { reg[i].key : i \in 1..Len(reg) }

\* the place of key k in reg
Place(reg, k) == CHOOSE i \in 1..Len(reg) : reg[i].key = k

\* reg[k]
SubsOf(reg, k) == reg[Place(reg, k)].subs

\* the observer list under key k, empty when the key is not registered
ListAt(reg, k) == IF k \in KeysOf(reg) THEN SubsOf(reg, k) ELSE <<>>

\* if(!(k in reg)) reg[k] = []
Ensure(reg, k) ==
    IF k \in KeysOf(reg) THEN reg ELSE Append(reg, [key |-> k, subs |-> <<>>])

\* reg[k].push(f)
Push(reg, k, f) == [reg EXCEPT ![Place(reg, k)].subs = Append(@, f)]

\* delete reg[k]
Delete(reg, k) == SelectSeq(reg, LAMBDA e : e.key # k)

\* registrations held over all lists, and keys of _rightsAllSubscriptions
TotalSubs ==
    LET RECURSIVE Sum(_)
        Sum(reg) == IF reg = <<>> THEN 0 ELSE Len(Head(reg).subs) + Sum(Tail(reg))
    IN  Len(_userSubscriptions) + Len(_permissionsSubscriptions)
        + Sum(_rightsSubscriptions) + Len(_rightsAllSubscriptions)

----------------------------------------------------------------------------
(* What the server can send *)

\* the maps from a subset of K to V
MapsOver(K, V) == UNION { [S -> V] : S \in SUBSET K }

\* (name, id) entries of a raw map
Entries(m) ==
    LET RECURSIVE Sum(_)
        Sum(S) == IF S = {} THEN 0
                  ELSE LET n == CHOOSE n \in S : TRUE
                       IN  Cardinality(DOMAIN m[n]) + Sum(S \ {n})
    IN  Sum(DOMAIN m)

\* raw permissions: name -> id -> bit flags
RawMaps ==
    { m \in MapsOver(Names, MapsOver(Ids, RawValues)) :
        Cardinality(DOMAIN m) <= MaxNames /\ Entries(m) <= MaxEntries }

\* the users a fetch can resolve with, with and without a permissions field
Users ==
    { [_id |-> "u1", permissions |-> m] : m \in RawMaps } \cup { [_id |-> "u1"] }

\* users with one permission entry, of any raw value up to MaxRaw
CodecUsers ==
    { [_id |-> "u1", permissions |-> (name :> (id :> v))] :
        name \in Names, id \in Ids, v \in 0..MaxRaw }

\* a user with an entry that grants nothing and a name without ids
ShapeUsers ==
    { [_id |-> "u1",
       permissions |-> (<<"a">> :> (<<"b">> :> 0))
                       @@ (<<"a", COLON, "b">> :> <<>>)] }

----------------------------------------------------------------------------
(* Rights codec and permission store *)

\* the rights types, in the order of their declaration
_types ==
    (<<"create">> :> 1) @@ (<<"read">> :> 2) @@
    (<<"update">> :> 4) @@ (<<"delete">> :> 8)

\* mutant of RightsOf: every type is written, with the bit test as its value
RightsOfAllTypes(v) ==
    [s \in DOMAIN _types |-> BitAnd(v, _types[s]) # 0]

\* mutant of RightsOf: a logical && in place of the bitwise &
RightsOfLogical(v) ==
    [s \in { t \in DOMAIN _types : v # 0 /\ _types[t] # 0 } |-> TRUE]

\* the rights set from one raw value: the innermost loop of permissionsSet
RightsOf(v) ==
    [s \in { t \in DOMAIN _types : BitAnd(v, _types[t]) # 0 } |-> TRUE]

\* mutant of Decoded: fills the existing map instead of a fresh one
DecodedMerged(list) ==
    [name \in DOMAIN list \cup DOMAIN _permissions |->
        IF name \in DOMAIN list
        THEN [id \in DOMAIN list[name] |-> RightsOf(list[name][id])]
        ELSE _permissions[name]]

\* the permission map permissionsSet builds from the raw list
Decoded(list) ==
    [name \in DOMAIN list |->
        [id \in DOMAIN list[name] |-> RightsOf(list[name][id])]]

\* the rights passed for (name, id): a copy of what is stored, else {}
RightsAt(perms, name, id) ==
    IF name \in DOMAIN perms /\ id \in DOMAIN perms[name]
    THEN clone(perms[name][id])
    ELSE <<>>

\* the rights passed for a name without id: a copy of its ids, else {}
RightsAllAt(perms, name) ==
    IF name \in DOMAIN perms THEN clone(perms[name]) ELSE <<>>

\* mutant of PermissionsOr: reads a field the user does not have
PermissionsOrNone(data) == <<>>

\* data.permissions || {}
PermissionsOr(data) ==
    IF "permissions" \in DOMAIN data THEN data.permissions ELSE <<>>

----------------------------------------------------------------------------
(* The loops of set and permissionsSet.  for...of walks the live array by   *)
(* index and reads its length at every step, so what a callback does to the *)
(* list while it is notified decides which callbacks the loop still visits. *)

\* what unsubscribe(callback), or permissionsUnsubscribe(callback), leaves of
\* the list it looks in
unsubscribed(subs, callback) ==
    IF indexOf(subs, callback) > -1
    THEN splice(subs, indexOf(subs, callback))
    ELSE subs

\* what permissionsUnsubscribe(callback, name, id) leaves of
\* _rightsSubscriptions, sKey being the key it looks under
permissionsUnsubscribed(reg, sKey, callback) ==
    IF sKey \in KeysOf(reg) /\ indexOf(SubsOf(reg, sKey), callback) > -1
    THEN LET rest == splice(SubsOf(reg, sKey), indexOf(SubsOf(reg, sKey), callback))
         IN  IF Len(rest) <= 0
             THEN Delete(reg, sKey)
             ELSE [reg EXCEPT ![Place(reg, sKey)].subs = rest]
    ELSE reg

\* the three observer lists as one value
Lists ==
    [user |-> _userSubscriptions, permissions |-> _permissionsSubscriptions,
     rights |-> _rightsSubscriptions]

\* what callback f leaves of the lists R when it is called from the user
\* list, from the all-permissions list, or from the list under key k of
\* _rightsSubscriptions (the key of the name and id it subscribed with)
React(f, list, k, R) ==
    IF f \in Unsubscribers
    THEN IF list = "rights"
         THEN [R EXCEPT !.rights = permissionsUnsubscribed(@, k, f)]
         ELSE [R EXCEPT ![list] = unsubscribed(@, f)]
    ELSE IF f \in Removers
    THEN [R EXCEPT !.rights =
            permissionsUnsubscribed(@, Key(<<"a">>, <<"b">>), <<"f">>)]
    ELSE IF f \in Subscribers
    THEN IF list = "rights"
         THEN IF indexOf(ListAt(R.rights, k), <<"g">>) > -1 THEN R
              ELSE [R EXCEPT !.rights = Push(Ensure(@, k), k, <<"g">>)]
         ELSE IF indexOf(R[list], <<"g">>) > -1 THEN R
              ELSE [R EXCEPT ![list] = Append(@, <<"g">>)]
    ELSE R

\* the callbacks called inside the call of f: subscribe and
\* permissionsSubscribe call the callback they register at once, with a copy
\* of what the store holds
Nested(f, list, k, R) ==
    IF /\ f \in Subscribers
       /\ indexOf(IF list = "rights" THEN ListAt(R.rights, k) ELSE R[list],
                  <<"g">>) = -1
    THEN << <<"g">> >> ELSE <<>>

\* for(const f of _userSubscriptions) and for(const f of
\* _permissionsSubscriptions), from index i on: the callbacks called, in
\* order, and the lists left
RECURSIVE ListWalk(_, _, _, _)
ListWalk(list, R, i, told) ==
    IF i > Len(R[list]) THEN [lists |-> R, told |-> told]
    ELSE ListWalk(list, React(R[list][i], list, <<>>, R), i + 1,
                  Append(told, R[list][i]) \o Nested(R[list][i], list, <<>>, R))

\* for(const f of _rightsSubscriptions[k]), from index i on; the array of a
\* key is deleted only once it is empty
RECURSIVE KeyWalk(_, _, _, _)
KeyWalk(k, R, i, told) ==
    IF i > Len(ListAt(R.rights, k)) THEN [lists |-> R, told |-> told]
    ELSE KeyWalk(k, React(ListAt(R.rights, k)[i], "rights", k, R), i + 1,
                 Append(told, ListAt(R.rights, k)[i])
                 \o Nested(ListAt(R.rights, k)[i], "rights", k, R))

\* for(const k of Object.keys(_rightsSubscriptions)): the keys are read once,
\* before the loop; for(const f of _rightsSubscriptions[k]) throws a TypeError
\* when the key was deleted since, as undefined is not iterable
RECURSIVE RightsWalk(_, _, _)
RightsWalk(keys, R, told) ==
    IF keys = <<>> THEN [lists |-> R, told |-> told, thrown |-> FALSE]
    ELSE IF Head(keys) \notin KeysOf(R.rights)
    THEN [lists |-> R, told |-> told, thrown |-> TRUE]
    ELSE LET w == KeyWalk(Head(keys), R, 1, <<>>)
         IN  RightsWalk(Tail(keys), w.lists,
                        Append(told, [key |-> Head(keys), subs |-> w.told]))

\* some callback of the lists L does something to the lists when it is called
Reacting(L) ==
    LET Reactors == Unsubscribers \cup Subscribers \cup Removers
    IN  \/ \E i \in 1..Len(L.user) : L.user[i] \in Reactors
        \/ \E i \in 1..Len(L.permissions) : L.permissions[i] \in Reactors
        \/ \E j \in 1..Len(L.rights) :
              \E i \in 1..Len(L.rights[j].subs) : L.rights[j].subs[i] \in Reactors

\* set(...) followed by permissionsSet(...) over the lists L: the callbacks
\* each loop calls, the lists left when the last loop ends, and whether the
\* last loop threw; when no callback touches the lists each loop calls the
\* whole of its list
Walk(L) ==
    IF ~Reacting(L)
    THEN [user |-> L.user, permissions |-> L.permissions, rights |-> L.rights,
          lists |-> L, thrown |-> FALSE]
    ELSE LET u == ListWalk("user", L, 1, <<>>)
             p == ListWalk("permissions", u.lists, 1, <<>>)
             r == RightsWalk([i \in 1..Len(p.lists.rights) |->
                                 p.lists.rights[i].key],
                             p.lists, <<>>)
         IN  [user |-> u.told, permissions |-> p.told, rights |-> r.told,
              lists |-> r.lists, thrown |-> r.thrown]

\* the walk over the lists as they stand
Walked == walked

----------------------------------------------------------------------------
(* Notifications: the calls a fan-out makes, in order *)

\* one invocation of callback f, from an observer list, with its arguments
Call(list, key, f, args) == [list |-> list, key |-> key, f |-> f, args |-> args]

\* one call of a function of @ouroboros/brain: session, read or create
Brain(f, args) == Call("brain", <<>>, f, args)

\* mutant of SetCalls: stops after the first callback
SetCallsFirst(user, subs) ==
    [i \in 1..(IF Len(subs) > 0 THEN 1 ELSE 0) |->
        Call("user", <<>>, subs[i], <<clone(user)>>)]

\* mutant of SetCalls: notifies before it stores, with the user held so far
SetCallsStale(user, subs) ==
    [i \in 1..Len(subs) |-> Call("user", <<>>, subs[i], <<clone(_user)>>)]

\* set(user): every user callback with a copy of the user
SetCalls(user, subs) ==
    [i \in 1..Len(subs) |-> Call("user", <<>>, subs[i], <<clone(user)>>)]

\* mutant of PermissionsCalls: tells the observers only of a map that changed
PermissionsCallsIfChanged(perms, subs) ==
    IF perms = _permissions THEN <<>>
    ELSE [i \in 1..Len(subs) |->
             Call("permissions", <<>>, subs[i], <<clone(perms)>>)]

\* mutant of PermissionsCalls: walks the list from its end
PermissionsCallsLifo(perms, subs) ==
    [i \in 1..Len(subs) |->
        Call("permissions", <<>>, subs[Len(subs) + 1 - i], <<clone(perms)>>)]

\* permissionsSet, first loop: every all-permissions callback with a copy
PermissionsCalls(perms, subs) ==
    [i \in 1..Len(subs) |-> Call("permissions", <<>>, subs[i], <<clone(perms)>>)]

\* mutant of RightsCallsOf: takes the id after the last ':' of the key and the
\* name before it
RightsCallsOfLastColon(perms, k, subs) ==
    LET at == CHOOSE i \in 1..Len(k) :
                  k[i] = COLON /\ \A j \in (i + 1)..Len(k) : k[j] # COLON
    IN  [i \in 1..Len(subs) |->
            Call("rights", k, subs[i],
                 <<RightsAt(perms, SubSeq(k, 1, at - 1),
                            SubSeq(k, at + 1, Len(k)))>>)]

\* mutant of RightsCallsOf: notifies with the rights of the map being replaced
RightsCallsOfStale(perms, k, subs) ==
    [i \in 1..Len(subs) |->
        Call("rights", k, subs[i],
             <<RightsAt(_permissions, Destructure(split(k), 1),
                        Destructure(split(k), 2))>>)]

\* permissionsSet, inner loop: the callbacks under key k, with the rights found
\* under the first two parts of the key
RightsCallsOf(perms, k, subs) ==
    [i \in 1..Len(subs) |->
        Call("rights", k, subs[i],
             <<RightsAt(perms, Destructure(split(k), 1), Destructure(split(k), 2))>>)]

\* permissionsSet, second loop: every key of _rightsSubscriptions in turn
RECURSIVE RightsCalls(_, _)
RightsCalls(perms, reg) ==
    IF reg = <<>> THEN <<>>
    ELSE RightsCallsOf(perms, Head(reg).key, Head(reg).subs)
         \o RightsCalls(perms, Tail(reg))

\* the calls of permissionsSet(list)
PermissionsSetCalls(list) ==
    PermissionsCalls(Decoded(list), Walked.permissions)
    \o RightsCalls(Decoded(list), Walked.rights)

----------------------------------------------------------------------------
(* The objects the calls are passed.  The module keeps no reference to a   *)
(* copy it hands out, so an object passed in one step is one the stores    *)
(* hold (_user, _permissions or a part of it) or one allocated in the      *)
(* step, by clone or as a literal {}, named by the order of allocation.    *)

\* a value that is no object: a string, null, false, or no argument at all
Primitive == [object |-> "primitive", n |-> 0]

\* the n-th object allocated in the step
Fresh(n) == [object |-> "fresh", n |-> n]

\* the object _user refers to: set stores the object it is given (line 920),
\* and update resolves with the object it gave set (lines 1103, 1112)
UserObject == [object |-> "_user", n |-> 0]

\* no object at all: the step resolved no promise with a user
NoObject == [object |-> "none", n |-> 0]

\* clone(user) as the n-th allocation: a new object, or false itself
UserRef(user, n) == IF user = false THEN Primitive ELSE Fresh(n)

\* mutant of SetRefs: one copy, made before the loop, for all callbacks
SetRefsShared(user, subs, from) ==
    [i \in 1..Len(subs) |-> UserRef(user, from + 1)]

\* set(user): f(clone(_user)) makes a copy for every callback
SetRefs(user, subs, from) ==
    [i \in 1..Len(subs) |-> UserRef(user, from + i)]

\* permissionsSet, first loop: f(clone(_permissions)), a copy for every callback
PermissionsRefs(subs, from) ==
    [i \in 1..Len(subs) |-> Fresh(from + i)]

\* permissionsSet, second loop: clone(_permissions[name][id]) or {} for every
\* callback of every key
RECURSIVE RightsRefs(_, _)
RightsRefs(reg, from) ==
    IF reg = <<>> THEN <<>>
    ELSE [i \in 1..Len(Head(reg).subs) |-> Fresh(from + i)]
         \o RightsRefs(Tail(reg), from + Len(Head(reg).subs))

\* the objects of the calls of permissionsSet
PermissionsSetRefs(from) ==
    PermissionsRefs(Walked.permissions, from)
    \o RightsRefs(Walked.rights, from + Len(Walked.permissions))

\* the observer lists after the loops of set and permissionsSet
Notified ==
    /\ _userSubscriptions' = Walked.lists.user
    /\ _permissionsSubscriptions' = Walked.lists.permissions
    /\ _rightsSubscriptions' = Walked.lists.rights

----------------------------------------------------------------------------
(* What the observers hold: an observer is a callback in a list, <<list,    *)
(* key, f>>, and holds the arguments of the last call made to it from that  *)
(* list, for as long as it is registered there.                             *)

\* the observers registered
Registered ==
    { <<"user", <<>>, _userSubscriptions[i]>> : i \in 1..Len(_userSubscriptions) }
    \cup { <<"permissions", <<>>, _permissionsSubscriptions[i]>> :
              i \in 1..Len(_permissionsSubscriptions) }
    \cup UNION { { <<"rights", _rightsSubscriptions[j].key,
                     _rightsSubscriptions[j].subs[i]>> :
                      i \in 1..Len(_rightsSubscriptions[j].subs) } :
                  j \in 1..Len(_rightsSubscriptions) }

\* what subscribe, permissionsSubscribe(f) and permissionsSubscribe(f, name,
\* id) pass while the stores hold what they hold now
HeldNow ==
    [t \in Registered |->
        IF t[1] = "user" THEN <<clone(_user)>>
        ELSE IF t[1] = "permissions" THEN <<clone(_permissions)>>
        ELSE <<RightsAt(_permissions, Destructure(split(t[2]), 1),
                        Destructure(split(t[2]), 2))>>]

\* what the observers hold after a step, given the calls it made
HeldNext ==
    [t \in Registered' |->
        LET to == { i \in 1..Len(calls') :
                      /\ calls'[i].list = t[1]
                      /\ calls'[i].key = t[2]
                      /\ calls'[i].f = t[3] }
        IN  IF to # {}
            THEN calls'[CHOOSE i \in to : \A j \in to : j <= i].args
            ELSE IF t \in DOMAIN held THEN held[t] ELSE <<>>]

\* the calls of a step that made its first n calls before permissionsSet
\* assigned _permissions (lines 855-880) and the others after it; a step that does
\* not run permissionsSet makes all its calls with the map it found
ReplacedAfter(n) == [i \in 1..Len(calls') |-> i > n]

----------------------------------------------------------------------------
(* The state after the module is loaded *)

NoPromise == [call |-> "none", request |-> "none", state |-> "none", value |-> <<>>]

Init ==
    /\ _user = false
    /\ _userSubscriptions = <<>>
    /\ _permissions = <<>>
    /\ _permissionsSubscriptions = <<>>
    /\ _rightsSubscriptions = <<>>
    /\ _rightsAllSubscriptions = <<>>
    /\ _noSession = undefined
    /\ session = null
    /\ promises = [p \in 1..MaxPromises |-> NoPromise]
    /\ op = "load"
    /\ ret = [kind |-> "void"]
    /\ calls = <<>>
    /\ refs = <<>>
    /\ held = HeldNow
    /\ replaced = <<>>
    /\ resolved = NoObject
    /\ walked = Walk(Lists)

----------------------------------------------------------------------------
(* Synchronous operations *)

\* mutant of OnNoSession: stores the value before it checks it
OnNoSessionSetsFirst(callback) ==
    /\ op' = "onNoSession"
    /\ calls' = <<>>
    /\ refs' = <<>>
    /\ _noSession' = callback
    /\ \/ /\ ~IsFunction(callback)
          /\ ret' = [kind |-> "throw", error |-> "Error"]
       \/ /\ IsFunction(callback)
          /\ ret' = [kind |-> "void"]
    /\ UNCHANGED << stores, registries, promises >>
    /\ held' = HeldNext
    /\ walked' = Walk(Lists')
    /\ resolved' = NoObject
    /\ replaced' = ReplacedAfter(Len(calls'))

\* mutant of OnNoSession: keeps the callback registered first
OnNoSessionKeepsFirst(callback) ==
    /\ op' = "onNoSession"
    /\ calls' = <<>>
    /\ refs' = <<>>
    /\ \/ /\ ~IsFunction(callback)
          /\ ret' = [kind |-> "throw", error |-> "Error"]
          /\ UNCHANGED _noSession
       \/ /\ IsFunction(callback)
          /\ _noSession' = IF _noSession = undefined THEN callback ELSE _noSession
          /\ ret' = [kind |-> "void"]
    /\ UNCHANGED << stores, registries, promises >>
    /\ held' = HeldNext
    /\ walked' = Walk(Lists')
    /\ resolved' = NoObject
    /\ replaced' = ReplacedAfter(Len(calls'))

\* onNoSession(callback)
OnNoSession(callback) ==
    /\ op' = "onNoSession"
    /\ calls' = <<>>
    /\ refs' = <<>>
    /\ \/ /\ ~IsFunction(callback)
          /\ ret' = [kind |-> "throw", error |-> "Error"]
          /\ UNCHANGED _noSession
       \/ /\ IsFunction(callback)
          /\ _noSession' = callback
          /\ ret' = [kind |-> "void"]
    /\ UNCHANGED << stores, registries, promises >>
    /\ held' = HeldNext
    /\ walked' = Walk(Lists')
    /\ resolved' = NoObject
    /\ replaced' = ReplacedAfter(Len(calls'))

\* permissionsSubscribe(callback, name, id)
PermissionsSubscribe(callback, name, id) ==
    /\ op' = "permissionsSubscribe"
    /\ \/ /\ name = undefined
          /\ TotalSubs < MaxSubs
          /\ _permissionsSubscriptions' = Append(_permissionsSubscriptions, callback)
          /\ calls' = <<Call("permissions", <<>>, callback, <<clone(_permissions)>>)>>
          /\ refs' = <<Fresh(1)>>
          /\ ret' = [kind |-> "handle", data |-> clone(_permissions),
                     unsubscribe |-> <<callback, undefined, undefined>>]
          /\ UNCHANGED << _rightsSubscriptions, _rightsAllSubscriptions >>
       \/ /\ name # undefined
          /\ id = undefined
          /\ name \in KeysOf(_rightsSubscriptions)
          /\ TotalSubs < MaxSubs
          /\ _rightsAllSubscriptions' = Ensure(_rightsAllSubscriptions, name)
          /\ _rightsSubscriptions' = Push(_rightsSubscriptions, name, callback)
          /\ calls' = <<Call("rights", name, callback, <<RightsAllAt(_permissions, name)>>)>>
          /\ refs' = <<Fresh(1)>>
          /\ ret' = [kind |-> "handle", data |-> RightsAllAt(_permissions, name),
                     unsubscribe |-> <<callback, name, undefined>>]
          /\ UNCHANGED _permissionsSubscriptions
       \/ /\ name # undefined
          /\ id = undefined
          /\ name \notin KeysOf(_rightsSubscriptions)
          /\ TotalSubs < MaxSubs
          /\ _rightsAllSubscriptions' = Ensure(_rightsAllSubscriptions, name)
          /\ calls' = <<>>
          /\ refs' = <<>>
          /\ ret' = [kind |-> "throw", error |-> "TypeError"]
          /\ UNCHANGED << _permissionsSubscriptions, _rightsSubscriptions >>
       \/ /\ name # undefined
          /\ id # undefined
          /\ TotalSubs < MaxSubs
          /\ _rightsSubscriptions' =
                Push(Ensure(_rightsSubscriptions, Key(name, id)), Key(name, id), callback)
          /\ calls' = <<Call("rights", Key(name, id), callback,
                             <<RightsAt(_permissions, name, id)>>)>>
          /\ refs' = <<Fresh(1)>>
          /\ ret' = [kind |-> "handle", data |-> RightsAt(_permissions, name, id),
                     unsubscribe |-> <<callback, name, id>>]
          /\ UNCHANGED << _permissionsSubscriptions, _rightsAllSubscriptions >>
    /\ UNCHANGED << stores, _userSubscriptions, _noSession, promises >>
    /\ held' = HeldNext
    /\ walked' = Walk(Lists')
    /\ resolved' = NoObject
    /\ replaced' = ReplacedAfter(Len(calls'))

\* the key permissionsUnsubscribe looks under
UnsubscribeKey(name, id) == Key(name, IF id = undefined THEN RIGHTS_ALL_ID ELSE id)

\* permissionsUnsubscribe(callback, name, id)
PermissionsUnsubscribe(callback, name, id) ==
    /\ op' = "permissionsUnsubscribe"
    /\ calls' = <<>>
    /\ refs' = <<>>
    /\ \/ /\ name = undefined
          /\ indexOf(_permissionsSubscriptions, callback) > -1
          /\ _permissionsSubscriptions' =
                splice(_permissionsSubscriptions,
                       indexOf(_permissionsSubscriptions, callback))
          /\ ret' = [kind |-> "boolean", value |-> TRUE]
          /\ UNCHANGED _rightsSubscriptions
       \/ /\ name = undefined
          /\ ~(indexOf(_permissionsSubscriptions, callback) > -1)
          /\ ret' = [kind |-> "boolean", value |-> FALSE]
          /\ UNCHANGED << _permissionsSubscriptions, _rightsSubscriptions >>
       \/ /\ name # undefined
          /\ UnsubscribeKey(name, id) \notin KeysOf(_rightsSubscriptions)
          /\ ret' = [kind |-> "boolean", value |-> FALSE]
          /\ UNCHANGED << _permissionsSubscriptions, _rightsSubscriptions >>
       \/ /\ name # undefined
          /\ UnsubscribeKey(name, id) \in KeysOf(_rightsSubscriptions)
          /\ LET sKey == UnsubscribeKey(name, id)
                 i    == indexOf(SubsOf(_rightsSubscriptions, sKey), callback)
                 rest == splice(SubsOf(_rightsSubscriptions, sKey), i)
             IN  \/ /\ i > -1
                    /\ _rightsSubscriptions' =
                          IF Len(rest) <= 0
                          THEN Delete(_rightsSubscriptions, sKey)
                          ELSE [_rightsSubscriptions EXCEPT
                                   ![Place(_rightsSubscriptions, sKey)].subs = rest]
                    /\ ret' = [kind |-> "boolean", value |-> TRUE]
                 \/ /\ ~(i > -1)
                    /\ ret' = [kind |-> "boolean", value |-> FALSE]
                    /\ UNCHANGED _rightsSubscriptions
          /\ UNCHANGED _permissionsSubscriptions
    /\ UNCHANGED << stores, _userSubscriptions, _rightsAllSubscriptions,
                    _noSession, promises >>
    /\ held' = HeldNext
    /\ walked' = Walk(Lists')
    /\ resolved' = NoObject
    /\ replaced' = ReplacedAfter(Len(calls'))

\* mutant of Subscribe: registers the callback without calling it
SubscribeSilent(callback) ==
    /\ TotalSubs < MaxSubs
    /\ op' = "subscribe"
    /\ _userSubscriptions' = Append(_userSubscriptions, callback)
    /\ calls' = <<>>
    /\ refs' = <<>>
    /\ ret' = [kind |-> "handle", data |-> clone(_user),
                unsubscribe |-> <<callback>>]
    /\ UNCHANGED << stores, _permissionsSubscriptions, _rightsSubscriptions,
                    _rightsAllSubscriptions, _noSession, promises >>
    /\ held' = HeldNext
    /\ walked' = Walk(Lists')
    /\ resolved' = NoObject
    /\ replaced' = ReplacedAfter(Len(calls'))

\* subscribe(callback)
Subscribe(callback) ==
    /\ TotalSubs < MaxSubs
    /\ op' = "subscribe"
    /\ _userSubscriptions' = Append(_userSubscriptions, callback)
    /\ calls' = <<Call("user", <<>>, callback, <<clone(_user)>>)>>
    /\ refs' = <<UserRef(_user, 1)>>
    /\ ret' = [kind |-> "handle", data |-> clone(_user),
                unsubscribe |-> <<callback>>]
    /\ UNCHANGED << stores, _permissionsSubscriptions, _rightsSubscriptions,
                    _rightsAllSubscriptions, _noSession, promises >>
    /\ held' = HeldNext
    /\ walked' = Walk(Lists')
    /\ resolved' = NoObject
    /\ replaced' = ReplacedAfter(Len(calls'))

\* unsubscribe(callback)
Unsubscribe(callback) ==
    /\ op' = "unsubscribe"
    /\ calls' = <<>>
    /\ refs' = <<>>
    /\ \/ /\ indexOf(_userSubscriptions, callback) > -1
          /\ _userSubscriptions' =
                splice(_userSubscriptions, indexOf(_userSubscriptions, callback))
          /\ ret' = [kind |-> "boolean", value |-> TRUE]
       \/ /\ ~(indexOf(_userSubscriptions, callback) > -1)
          /\ ret' = [kind |-> "boolean", value |-> FALSE]
          /\ UNCHANGED _userSubscriptions
    /\ UNCHANGED << stores, _permissionsSubscriptions, _rightsSubscriptions,
                    _rightsAllSubscriptions, _noSession, promises >>
    /\ held' = HeldNext
    /\ walked' = Walk(Lists')
    /\ resolved' = NoObject
    /\ replaced' = ReplacedAfter(Len(calls'))

\* handle.unsubscribe() of the handle the application obtained last: the
\* closure returned by subscribe runs unsubscribe(callback), the one returned
\* by permissionsSubscribe runs permissionsUnsubscribe(callback[, name[, id]]),
\* and either drops the boolean.  The handle stays with the application, which
\* can call it again.
HandleUnsubscribe ==
    /\ "unsubscribe" \in DOMAIN ret
    /\ op' = "handle.unsubscribe"
    /\ calls' = <<>>
    /\ refs' = <<>>
    /\ ret' = [kind |-> "void", unsubscribe |-> ret.unsubscribe]
    /\ LET callback == ret.unsubscribe[1]
           name     == Destructure(ret.unsubscribe, 2)
           id       == Destructure(ret.unsubscribe, 3)
       IN  \/ /\ Len(ret.unsubscribe) = 1
              /\ _userSubscriptions' = unsubscribed(_userSubscriptions, callback)
              /\ UNCHANGED << _permissionsSubscriptions, _rightsSubscriptions >>
           \/ /\ Len(ret.unsubscribe) = 3
              /\ name = undefined
              /\ _permissionsSubscriptions' =
                    unsubscribed(_permissionsSubscriptions, callback)
              /\ UNCHANGED << _userSubscriptions, _rightsSubscriptions >>
           \/ /\ Len(ret.unsubscribe) = 3
              /\ name # undefined
              /\ _rightsSubscriptions' =
                    permissionsUnsubscribed(_rightsSubscriptions,
                                            UnsubscribeKey(name, id), callback)
              /\ UNCHANGED << _userSubscriptions, _permissionsSubscriptions >>
    /\ UNCHANGED << stores, _rightsAllSubscriptions, _noSession, promises >>
    /\ held' = HeldNext
    /\ walked' = Walk(Lists')
    /\ resolved' = NoObject
    /\ replaced' = ReplacedAfter(Len(calls'))

----------------------------------------------------------------------------
(* The session-invalidated handler and the asynchronous operations *)

\* JSON.stringify({ code: error.code, msg: error.msg })
stringify(error) == <<"{", "code", ":", error.code, ",", "msg", ":", error.msg, "}">>

\* mutant of NoSessionHandler: tells the application before it resets
NoSessionHandlerCallsFirst ==
    /\ op' = "body.onNoSession"
    /\ session' = null
    /\ _user' = false
    /\ _permissions' = Decoded(<<>>)
    /\ \/ /\ _noSession # undefined
          /\ calls' = <<Call("noSession", <<>>, _noSession, <<>>)>>
                      \o <<Brain(<<"session">>, <<null>>)>>
                      \o SetCalls(false, Walked.user)
                      \o PermissionsSetCalls(<<>>)
          /\ refs' = <<Primitive, Primitive>> \o SetRefs(false, Walked.user, 2)
                      \o PermissionsSetRefs(2 + Len(Walked.user))
          /\ Notified
          /\ replaced' = ReplacedAfter(2 + Len(Walked.user))
       \/ /\ _noSession = undefined
          /\ calls' = <<Brain(<<"session">>, <<null>>)>>
                      \o SetCalls(false, Walked.user)
                      \o PermissionsSetCalls(<<>>)
          /\ refs' = <<Primitive>> \o SetRefs(false, Walked.user, 1)
                      \o PermissionsSetRefs(1 + Len(Walked.user))
          /\ Notified
          /\ replaced' = ReplacedAfter(1 + Len(Walked.user))
    /\ ret' = [kind |-> "void"]
    /\ UNCHANGED << _rightsAllSubscriptions, _noSession, promises >>
    /\ held' = HeldNext
    /\ walked' = Walk(Lists')
    /\ resolved' = NoObject

\* mutant of NoSessionHandler: clears the user and leaves the permission map
NoSessionHandlerKeepsPermissions ==
    /\ op' = "body.onNoSession"
    /\ session' = null
    /\ _user' = false
    /\ UNCHANGED _permissions
    /\ calls' = <<Brain(<<"session">>, <<null>>)>>
                \o SetCalls(false, Walked.user)
    /\ refs' = <<Primitive>> \o SetRefs(false, Walked.user, 1)
    /\ Notified
    /\ ret' = [kind |-> "void"]
    /\ UNCHANGED << _rightsAllSubscriptions, _noSession, promises >>
    /\ held' = HeldNext
    /\ walked' = Walk(Lists')
    /\ resolved' = NoObject
    /\ replaced' = ReplacedAfter(Len(calls'))

\* the handler the module registers with body.onNoSession
NoSessionHandler ==
    /\ op' = "body.onNoSession"
    /\ session' = null
    /\ _user' = false
    /\ _permissions' = Decoded(<<>>)
    /\ \/ /\ _noSession # undefined
          /\ ~Walked.thrown
          /\ calls' = <<Brain(<<"session">>, <<null>>)>>
                      \o SetCalls(false, Walked.user)
                      \o PermissionsSetCalls(<<>>)
                      \o <<Call("noSession", <<>>, _noSession, <<>>)>>
          /\ refs' = <<Primitive>> \o SetRefs(false, Walked.user, 1)
                      \o PermissionsSetRefs(1 + Len(Walked.user))
                      \o <<Primitive>>
          /\ Notified
          /\ replaced' = ReplacedAfter(1 + Len(Walked.user))
       \/ /\ _noSession = undefined \/ Walked.thrown
          /\ calls' = <<Brain(<<"session">>, <<null>>)>>
                      \o SetCalls(false, Walked.user)
                      \o PermissionsSetCalls(<<>>)
          /\ refs' = <<Primitive>> \o SetRefs(false, Walked.user, 1)
                      \o PermissionsSetRefs(1 + Len(Walked.user))
          /\ Notified
          /\ replaced' = ReplacedAfter(1 + Len(Walked.user))
    /\ ret' = IF Walked.thrown THEN [kind |-> "throw", error |-> "TypeError"]
              ELSE [kind |-> "void"]
    /\ UNCHANGED << _rightsAllSubscriptions, _noSession, promises >>
    /\ held' = HeldNext
    /\ walked' = Walk(Lists')
    /\ resolved' = NoObject

\* update(): creates the promise and issues brain.read('user'); the request
\* goes out under the session token set at that time
Update(p) ==
    /\ promises[p].request # "inflight"
    /\ op' = "update"
    /\ promises' = [promises EXCEPT ![p] =
            [call |-> "update", request |-> "inflight", state |-> "pending",
             value |-> <<>>, sent |-> session]]
    /\ calls' = <<Brain(<<"read">>, << <<"user">> >>)>>
    /\ refs' = <<Primitive>>
    /\ ret' = [kind |-> "promise", promise |-> p]
    /\ UNCHANGED << stores, registries, _noSession >>
    /\ held' = HeldNext
    /\ walked' = Walk(Lists')
    /\ resolved' = NoObject
    /\ replaced' = ReplacedAfter(Len(calls'))

\* mutant of UpdateThen: runs permissionsSet before set
UpdateThenPermissionsFirst(p, data) ==
    /\ promises[p].call = "update"
    /\ promises[p].request = "inflight"
    /\ op' = "update.then"
    /\ \/ /\ data # false
          /\ _user' = data
          /\ _permissions' = Decoded(PermissionsOr(data))
          /\ calls' = PermissionsSetCalls(PermissionsOr(data))
                      \o SetCalls(data, Walked.user)
          /\ refs' = PermissionsSetRefs(0)
                      \o SetRefs(data, Walked.user,
                                 Len(PermissionsSetCalls(PermissionsOr(data))))
          /\ Notified
          /\ replaced' = ReplacedAfter(0)
          /\ promises' = [promises EXCEPT ![p] =
                [@ EXCEPT !.request = "settled", !.state = "resolved",
                          !.value = data]]
          /\ ret' = [kind |-> "resolve", promise |-> p, value |-> data]
       \/ /\ data = false
          /\ calls' = <<>>
          /\ refs' = <<>>
          /\ UNCHANGED lists
          /\ replaced' = ReplacedAfter(Len(calls'))
          /\ ret' = [kind |-> "void"]
          /\ promises' = [promises EXCEPT ![p].request = "settled"]
          /\ UNCHANGED << _user, _permissions >>
    /\ UNCHANGED << session, _rightsAllSubscriptions, _noSession >>
    /\ held' = HeldNext
    /\ walked' = Walk(Lists')
    /\ resolved' = IF ret'.kind = "resolve" THEN UserObject ELSE NoObject

\* mutant of UpdateThen: drops the answer to a request sent under another
\* session token than the current one
UpdateThenDropsStale(p, data) ==
    /\ promises[p].call = "update"
    /\ promises[p].request = "inflight"
    /\ op' = "update.then"
    /\ \/ /\ data # false
          /\ promises[p].sent = session
          /\ _user' = data
          /\ _permissions' = Decoded(PermissionsOr(data))
          /\ calls' = SetCalls(data, Walked.user)
                      \o PermissionsSetCalls(PermissionsOr(data))
          /\ refs' = SetRefs(data, Walked.user, 0)
                      \o PermissionsSetRefs(Len(Walked.user))
          /\ Notified
          /\ replaced' = ReplacedAfter(Len(Walked.user))
          /\ promises' = [promises EXCEPT ![p] =
                [@ EXCEPT !.request = "settled", !.state = "resolved",
                          !.value = data]]
          /\ ret' = [kind |-> "resolve", promise |-> p, value |-> data]
       \/ /\ data = false \/ promises[p].sent # session
          /\ calls' = <<>>
          /\ refs' = <<>>
          /\ UNCHANGED lists
          /\ replaced' = ReplacedAfter(Len(calls'))
          /\ ret' = [kind |-> "void"]
          /\ promises' = [promises EXCEPT ![p].request = "settled"]
          /\ UNCHANGED << _user, _permissions >>
    /\ UNCHANGED << session, _rightsAllSubscriptions, _noSession >>
    /\ held' = HeldNext
    /\ walked' = Walk(Lists')
    /\ resolved' = IF ret'.kind = "resolve" THEN UserObject ELSE NoObject

\* the fulfilment callback of brain.read('user') in update()
UpdateThen(p, data) ==
    /\ promises[p].call = "update"
    /\ promises[p].request = "inflight"
    /\ op' = "update.then"
    /\ \/ /\ data # false
          /\ _user' = data
          /\ _permissions' = Decoded(PermissionsOr(data))
          /\ calls' = SetCalls(data, Walked.user)
                      \o PermissionsSetCalls(PermissionsOr(data))
          /\ refs' = SetRefs(data, Walked.user, 0)
                      \o PermissionsSetRefs(Len(Walked.user))
          /\ Notified
          /\ replaced' = ReplacedAfter(Len(Walked.user))
          /\ promises' =
                IF Walked.thrown
                THEN [promises EXCEPT ![p].request = "settled"]
                ELSE [promises EXCEPT ![p] =
                        [@ EXCEPT !.request = "settled", !.state = "resolved",
                                  !.value = data]]
          /\ ret' = IF Walked.thrown THEN [kind |-> "throw", error |-> "TypeError"]
                    ELSE [kind |-> "resolve", promise |-> p, value |-> data]
       \/ /\ data = false
          /\ calls' = <<>>
          /\ refs' = <<>>
          /\ UNCHANGED lists
          /\ replaced' = ReplacedAfter(Len(calls'))
          /\ ret' = [kind |-> "void"]
          /\ promises' = [promises EXCEPT ![p].request = "settled"]
          /\ UNCHANGED << _user, _permissions >>
    /\ UNCHANGED << session, _rightsAllSubscriptions, _noSession >>
    /\ held' = HeldNext
    /\ walked' = Walk(Lists')
    /\ resolved' = IF ret'.kind = "resolve" THEN UserObject ELSE NoObject

\* mutant of UpdateCatch: a failed fetch also signs the user out
UpdateCatchSignsOut(p, error) ==
    /\ promises[p].call = "update"
    /\ promises[p].request = "inflight"
    /\ op' = "update.catch"
    /\ \/ /\ "handle" \in DOMAIN error
          /\ calls' = <<Call("handle", <<>>, error.handle, <<stringify(error)>>)>>
          /\ refs' = <<Primitive>>
          /\ UNCHANGED lists
          /\ replaced' = ReplacedAfter(Len(calls'))
          /\ promises' = [promises EXCEPT ![p].request = "settled"]
          /\ ret' = [kind |-> "void"]
          /\ UNCHANGED << _user, _permissions >>
       \/ /\ "handle" \notin DOMAIN error
          /\ _user' = false
          /\ _permissions' = Decoded(<<>>)
          /\ calls' = SetCalls(false, Walked.user) \o PermissionsSetCalls(<<>>)
          /\ refs' = SetRefs(false, Walked.user, 0)
                      \o PermissionsSetRefs(Len(Walked.user))
          /\ Notified
          /\ replaced' = ReplacedAfter(Len(Walked.user))
          /\ promises' = [promises EXCEPT ![p] =
                [@ EXCEPT !.request = "settled", !.state = "rejected",
                          !.value = error]]
          /\ ret' = [kind |-> "reject", promise |-> p, value |-> error]
    /\ UNCHANGED << session, _rightsAllSubscriptions, _noSession >>
    /\ held' = HeldNext
    /\ walked' = Walk(Lists')
    /\ resolved' = NoObject

\* mutant of UpdateCatch: every error is passed to reject
UpdateCatchRejectsAll(p, error) ==
    /\ promises[p].call = "update"
    /\ promises[p].request = "inflight"
    /\ op' = "update.catch"
    /\ calls' = <<>>
    /\ refs' = <<>>
    /\ promises' = [promises EXCEPT ![p] =
          [@ EXCEPT !.request = "settled", !.state = "rejected", !.value = error]]
    /\ ret' = [kind |-> "reject", promise |-> p, value |-> error]
    /\ UNCHANGED << stores, registries, _noSession >>
    /\ held' = HeldNext
    /\ walked' = Walk(Lists')
    /\ resolved' = NoObject
    /\ replaced' = ReplacedAfter(Len(calls'))

\* the rejection callback of brain.read('user') in update()
UpdateCatch(p, error) ==
    /\ promises[p].call = "update"
    /\ promises[p].request = "inflight"
    /\ op' = "update.catch"
    /\ \/ /\ "handle" \in DOMAIN error
          /\ calls' = <<Call("handle", <<>>, error.handle, <<stringify(error)>>)>>
          /\ refs' = <<Primitive>>
          /\ promises' = [promises EXCEPT ![p].request = "settled"]
          /\ ret' = [kind |-> "void"]
       \/ /\ "handle" \notin DOMAIN error
          /\ calls' = <<>>
          /\ refs' = <<>>
          /\ ret' = [kind |-> "reject", promise |-> p, value |-> error]
          /\ promises' = [promises EXCEPT ![p] =
                [@ EXCEPT !.request = "settled", !.state = "rejected",
                          !.value = error]]
    /\ UNCHANGED << stores, registries, _noSession >>
    /\ held' = HeldNext
    /\ walked' = Walk(Lists')
    /\ resolved' = NoObject
    /\ replaced' = ReplacedAfter(Len(calls'))

\* signout(): creates the promise and issues brain.create('signout')
Signout(p) ==
    /\ promises[p].request # "inflight"
    /\ op' = "signout"
    /\ promises' = [promises EXCEPT ![p] =
            [call |-> "signout", request |-> "inflight", state |-> "pending",
             value |-> <<>>]]
    /\ calls' = <<Brain(<<"create">>, << <<"signout">> >>)>>
    /\ refs' = <<Primitive>>
    /\ ret' = [kind |-> "promise", promise |-> p]
    /\ UNCHANGED << stores, registries, _noSession >>
    /\ held' = HeldNext
    /\ walked' = Walk(Lists')
    /\ resolved' = NoObject
    /\ replaced' = ReplacedAfter(Len(calls'))

\* mutant of SignoutThen: signs out locally whatever the answer is
SignoutThenAnyAnswer(p, data) ==
    /\ promises[p].call = "signout"
    /\ promises[p].request = "inflight"
    /\ op' = "signout.then"
    /\ session' = null
    /\ _user' = false
    /\ _permissions' = Decoded(<<>>)
    /\ calls' = <<Brain(<<"session">>, <<null>>)>>
                \o SetCalls(false, Walked.user)
                \o PermissionsSetCalls(<<>>)
    /\ refs' = <<Primitive>> \o SetRefs(false, Walked.user, 1)
                \o PermissionsSetRefs(1 + Len(Walked.user))
    /\ Notified
    /\ replaced' = ReplacedAfter(1 + Len(Walked.user))
    /\ promises' = [promises EXCEPT ![p] =
          [@ EXCEPT !.request = "settled", !.state = "resolved", !.value = data]]
    /\ ret' = [kind |-> "resolve", promise |-> p, value |-> data]
    /\ UNCHANGED << _rightsAllSubscriptions, _noSession >>
    /\ held' = HeldNext
    /\ walked' = Walk(Lists')
    /\ resolved' = NoObject

\* mutant of SignoutThen: signs out without clearing the permissions
SignoutThenKeepsPermissions(p, data) ==
    /\ promises[p].call = "signout"
    /\ promises[p].request = "inflight"
    /\ op' = "signout.then"
    /\ \/ /\ data # false
          /\ session' = null
          /\ _user' = false
          /\ calls' = <<Brain(<<"session">>, <<null>>)>>
                      \o SetCalls(false, Walked.user)
          /\ refs' = <<Primitive>> \o SetRefs(false, Walked.user, 1)
          /\ Notified
          /\ UNCHANGED _permissions
       \/ /\ data = false
          /\ calls' = <<>>
          /\ refs' = <<>>
          /\ UNCHANGED lists
          /\ UNCHANGED << session, _user, _permissions >>
    /\ promises' = [promises EXCEPT ![p] =
          [@ EXCEPT !.request = "settled", !.state = "resolved", !.value = data]]
    /\ ret' = [kind |-> "resolve", promise |-> p, value |-> data]
    /\ UNCHANGED << _rightsAllSubscriptions, _noSession >>
    /\ held' = HeldNext
    /\ walked' = Walk(Lists')
    /\ resolved' = NoObject
    /\ replaced' = ReplacedAfter(Len(calls'))

\* the fulfilment callback of brain.create('signout') in signout()
SignoutThen(p, data) ==
    /\ promises[p].call = "signout"
    /\ promises[p].request = "inflight"
    /\ op' = "signout.then"
    /\ \/ /\ data # false
          /\ session' = null
          /\ _user' = false
          /\ _permissions' = Decoded(<<>>)
          /\ calls' = <<Brain(<<"session">>, <<null>>)>>
                      \o SetCalls(false, Walked.user)
                      \o PermissionsSetCalls(<<>>)
          /\ refs' = <<Primitive>> \o SetRefs(false, Walked.user, 1)
                      \o PermissionsSetRefs(1 + Len(Walked.user))
          /\ Notified
          /\ replaced' = ReplacedAfter(1 + Len(Walked.user))
       \/ /\ data = false
          /\ calls' = <<>>
          /\ refs' = <<>>
          /\ UNCHANGED lists
          /\ replaced' = ReplacedAfter(Len(calls'))
          /\ UNCHANGED << session, _user, _permissions >>
    /\ promises' =
          IF data # false /\ Walked.thrown
          THEN [promises EXCEPT ![p].request = "settled"]
          ELSE [promises EXCEPT ![p] =
                  [@ EXCEPT !.request = "settled", !.state = "resolved",
                            !.value = data]]
    /\ ret' = IF data # false /\ Walked.thrown THEN [kind |-> "throw", error |-> "TypeError"]
              ELSE [kind |-> "resolve", promise |-> p, value |-> data]
    /\ UNCHANGED << _rightsAllSubscriptions, _noSession >>
    /\ held' = HeldNext
    /\ walked' = Walk(Lists')
    /\ resolved' = NoObject

\* mutant of SignoutCatch: a failed sign-out still signs out locally
SignoutCatchSignsOut(p, error) ==
    /\ promises[p].call = "signout"
    /\ promises[p].request = "inflight"
    /\ op' = "signout.catch"
    /\ session' = null
    /\ _user' = false
    /\ _permissions' = Decoded(<<>>)
    /\ calls' = <<Brain(<<"session">>, <<null>>)>>
                \o SetCalls(false, Walked.user)
                \o PermissionsSetCalls(<<>>)
    /\ refs' = <<Primitive>> \o SetRefs(false, Walked.user, 1)
                \o PermissionsSetRefs(1 + Len(Walked.user))
    /\ Notified
    /\ replaced' = ReplacedAfter(1 + Len(Walked.user))
    /\ promises' = [promises EXCEPT ![p] =
          [@ EXCEPT !.request = "settled", !.state = "rejected", !.value = error]]
    /\ ret' = [kind |-> "reject", promise |-> p, value |-> error]
    /\ UNCHANGED << _rightsAllSubscriptions, _noSession >>
    /\ held' = HeldNext
    /\ walked' = Walk(Lists')
    /\ resolved' = NoObject

\* the rejection callback of brain.create('signout') in signout(): reject
SignoutCatch(p, error) ==
    /\ promises[p].call = "signout"
    /\ promises[p].request = "inflight"
    /\ op' = "signout.catch"
    /\ calls' = <<>>
    /\ refs' = <<>>
    /\ promises' = [promises EXCEPT ![p] =
          [@ EXCEPT !.request = "settled", !.state = "rejected", !.value = error]]
    /\ ret' = [kind |-> "reject", promise |-> p, value |-> error]
    /\ UNCHANGED << stores, registries, _noSession >>
    /\ held' = HeldNext
    /\ walked' = Walk(Lists')
    /\ resolved' = NoObject
    /\ replaced' = ReplacedAfter(Len(calls'))

\* signup(using): creates the promise and issues brain.create('signup', using)
Signup(p, using) ==
    /\ promises[p].request # "inflight"
    /\ op' = "signup"
    /\ promises' = [promises EXCEPT ![p] =
            [call |-> "signup", request |-> "inflight", state |-> "pending",
             value |-> <<>>]]
    /\ calls' = <<Brain(<<"create">>, << <<"signup">>, using >>)>>
    /\ refs' = <<Primitive>>
    /\ ret' = [kind |-> "promise", promise |-> p]
    /\ UNCHANGED << stores, registries, _noSession >>
    /\ held' = HeldNext
    /\ walked' = Walk(Lists')
    /\ resolved' = NoObject
    /\ replaced' = ReplacedAfter(Len(calls'))

\* mutant of SignupThen: resolves only with a truthy result, as signin does
SignupThenIfData(p, data) ==
    /\ promises[p].call = "signup"
    /\ promises[p].request = "inflight"
    /\ op' = "signup.then"
    /\ calls' = <<>>
    /\ refs' = <<>>
    /\ \/ /\ data # false
          /\ promises' = [promises EXCEPT ![p] =
                [@ EXCEPT !.request = "settled", !.state = "resolved",
                          !.value = data]]
          /\ ret' = [kind |-> "resolve", promise |-> p, value |-> data]
       \/ /\ data = false
          /\ promises' = [promises EXCEPT ![p].request = "settled"]
          /\ ret' = [kind |-> "void"]
    /\ UNCHANGED << stores, registries, _noSession >>
    /\ held' = HeldNext
    /\ walked' = Walk(Lists')
    /\ resolved' = NoObject
    /\ replaced' = ReplacedAfter(Len(calls'))

\* the fulfilment callback of brain.create('signup', using) in signup(): resolve
SignupThen(p, data) ==
    /\ promises[p].call = "signup"
    /\ promises[p].request = "inflight"
    /\ op' = "signup.then"
    /\ calls' = <<>>
    /\ refs' = <<>>
    /\ promises' = [promises EXCEPT ![p] =
          [@ EXCEPT !.request = "settled", !.state = "resolved", !.value = data]]
    /\ ret' = [kind |-> "resolve", promise |-> p, value |-> data]
    /\ UNCHANGED << stores, registries, _noSession >>
    /\ held' = HeldNext
    /\ walked' = Walk(Lists')
    /\ resolved' = NoObject
    /\ replaced' = ReplacedAfter(Len(calls'))

\* the rejection callback of brain.create('signup', using) in signup(): reject
SignupCatch(p, error) ==
    /\ promises[p].call = "signup"
    /\ promises[p].request = "inflight"
    /\ op' = "signup.catch"
    /\ calls' = <<>>
    /\ refs' = <<>>
    /\ promises' = [promises EXCEPT ![p] =
          [@ EXCEPT !.request = "settled", !.state = "rejected", !.value = error]]
    /\ ret' = [kind |-> "reject", promise |-> p, value |-> error]
    /\ UNCHANGED << stores, registries, _noSession >>
    /\ held' = HeldNext
    /\ walked' = Walk(Lists')
    /\ resolved' = NoObject
    /\ replaced' = ReplacedAfter(Len(calls'))

\* signin(using): with a string, sets the session and calls update(); with an
\* email and password, issues brain.create('signin', using).  awaits names the
\* request in flight, token the session the promise will resolve with.
Signin(p, using) ==
    /\ promises[p].request # "inflight"
    /\ op' = "signin"
    /\ \/ /\ IsString(using)
          /\ session' = using
          /\ promises' = [promises EXCEPT ![p] =
                [call |-> "signin", request |-> "inflight", state |-> "pending",
                 value |-> <<>>, awaits |-> "read", token |-> using]]
          /\ calls' = <<Brain(<<"session">>, <<using>>),
                        Brain(<<"read">>, << <<"user">> >>)>>
          /\ refs' = <<Primitive, Primitive>>
       \/ /\ ~IsString(using)
          /\ promises' = [promises EXCEPT ![p] =
                [call |-> "signin", request |-> "inflight", state |-> "pending",
                 value |-> <<>>, awaits |-> "create", token |-> undefined]]
          /\ calls' = <<Brain(<<"create">>, << <<"signin">>, using >>)>>
          /\ refs' = <<Primitive>>
          /\ UNCHANGED session
    /\ ret' = [kind |-> "promise", promise |-> p]
    /\ UNCHANGED << _user, _permissions, registries, _noSession >>
    /\ held' = HeldNext
    /\ walked' = Walk(Lists')
    /\ resolved' = NoObject
    /\ replaced' = ReplacedAfter(Len(calls'))

\* mutant of SigninThen: fetches the user before it sets the session
SigninThenFetchesFirst(p, data) ==
    /\ promises[p].call = "signin"
    /\ promises[p].request = "inflight"
    /\ promises[p].awaits = "create"
    /\ op' = "signin.then"
    /\ \/ /\ data # false
          /\ session' = data.session
          /\ promises' = [promises EXCEPT ![p] =
                [@ EXCEPT !.awaits = "read", !.token = data.session]]
          /\ calls' = <<Brain(<<"read">>, << <<"user">> >>),
                        Brain(<<"session">>, <<data.session>>)>>
          /\ refs' = <<Primitive, Primitive>>
       \/ /\ data = false
          /\ promises' = [promises EXCEPT ![p].request = "settled"]
          /\ calls' = <<>>
          /\ refs' = <<>>
          /\ UNCHANGED session
    /\ ret' = [kind |-> "void"]
    /\ UNCHANGED << _user, _permissions, registries, _noSession >>
    /\ held' = HeldNext
    /\ walked' = Walk(Lists')
    /\ resolved' = NoObject
    /\ replaced' = ReplacedAfter(Len(calls'))

\* the fulfilment callback of brain.create('signin', using) in signin()
SigninThen(p, data) ==
    /\ promises[p].call = "signin"
    /\ promises[p].request = "inflight"
    /\ promises[p].awaits = "create"
    /\ op' = "signin.then"
    /\ \/ /\ data # false
          /\ session' = data.session
          /\ promises' = [promises EXCEPT ![p] =
                [@ EXCEPT !.awaits = "read", !.token = data.session]]
          /\ calls' = <<Brain(<<"session">>, <<data.session>>),
                        Brain(<<"read">>, << <<"user">> >>)>>
          /\ refs' = <<Primitive, Primitive>>
       \/ /\ data = false
          /\ promises' = [promises EXCEPT ![p].request = "settled"]
          /\ calls' = <<>>
          /\ refs' = <<>>
          /\ UNCHANGED session
    /\ ret' = [kind |-> "void"]
    /\ UNCHANGED << _user, _permissions, registries, _noSession >>
    /\ held' = HeldNext
    /\ walked' = Walk(Lists')
    /\ resolved' = NoObject
    /\ replaced' = ReplacedAfter(Len(calls'))

\* the rejection callback of brain.create('signin', using) in signin(): reject
SigninCatch(p, error) ==
    /\ promises[p].call = "signin"
    /\ promises[p].request = "inflight"
    /\ promises[p].awaits = "create"
    /\ op' = "signin.catch"
    /\ calls' = <<>>
    /\ refs' = <<>>
    /\ promises' = [promises EXCEPT ![p] =
          [@ EXCEPT !.request = "settled", !.state = "rejected", !.value = error]]
    /\ ret' = [kind |-> "reject", promise |-> p, value |-> error]
    /\ UNCHANGED << stores, registries, _noSession >>
    /\ held' = HeldNext
    /\ walked' = Walk(Lists')
    /\ resolved' = NoObject
    /\ replaced' = ReplacedAfter(Len(calls'))

\* mutant of SigninUpdateThen: resolves with the token brain holds by then
SigninUpdateThenCurrentSession(p, data) ==
    /\ promises[p].call = "signin"
    /\ promises[p].request = "inflight"
    /\ promises[p].awaits = "read"
    /\ op' = "signin.update.then"
    /\ \/ /\ data # false
          /\ _user' = data
          /\ _permissions' = Decoded(PermissionsOr(data))
          /\ calls' = SetCalls(data, Walked.user)
                      \o PermissionsSetCalls(PermissionsOr(data))
          /\ refs' = SetRefs(data, Walked.user, 0)
                      \o PermissionsSetRefs(Len(Walked.user))
          /\ Notified
          /\ replaced' = ReplacedAfter(Len(Walked.user))
          /\ promises' = [promises EXCEPT ![p] =
                [@ EXCEPT !.request = "settled", !.state = "resolved",
                          !.value = [session |-> session, user |-> data]]]
          /\ ret' = [kind |-> "resolve", promise |-> p,
                     value |-> [session |-> session, user |-> data]]
       \/ /\ data = false
          /\ calls' = <<>>
          /\ refs' = <<>>
          /\ UNCHANGED lists
          /\ replaced' = ReplacedAfter(Len(calls'))
          /\ ret' = [kind |-> "void"]
          /\ promises' = [promises EXCEPT ![p].request = "settled"]
          /\ UNCHANGED << _user, _permissions >>
    /\ UNCHANGED << session, _rightsAllSubscriptions, _noSession >>
    /\ held' = HeldNext
    /\ walked' = Walk(Lists')
    /\ resolved' = IF ret'.kind = "resolve" THEN UserObject ELSE NoObject

\* the fulfilment callback of brain.read('user') in the update() signin()
\* called, followed by signin's .then(user => resolve({session, user}))
SigninUpdateThen(p, data) ==
    /\ promises[p].call = "signin"
    /\ promises[p].request = "inflight"
    /\ promises[p].awaits = "read"
    /\ op' = "signin.update.then"
    /\ \/ /\ data # false
          /\ _user' = data
          /\ _permissions' = Decoded(PermissionsOr(data))
          /\ calls' = SetCalls(data, Walked.user)
                      \o PermissionsSetCalls(PermissionsOr(data))
          /\ refs' = SetRefs(data, Walked.user, 0)
                      \o PermissionsSetRefs(Len(Walked.user))
          /\ Notified
          /\ replaced' = ReplacedAfter(Len(Walked.user))
          /\ promises' =
                IF Walked.thrown
                THEN [promises EXCEPT ![p].request = "settled"]
                ELSE [promises EXCEPT ![p] =
                        [@ EXCEPT !.request = "settled", !.state = "resolved",
                                  !.value = [session |-> promises[p].token,
                                             user |-> data]]]
          /\ ret' = IF Walked.thrown THEN [kind |-> "throw", error |-> "TypeError"]
                    ELSE [kind |-> "resolve", promise |-> p,
                          value |-> [session |-> promises[p].token, user |-> data]]
       \/ /\ data = false
          /\ calls' = <<>>
          /\ refs' = <<>>
          /\ UNCHANGED lists
          /\ replaced' = ReplacedAfter(Len(calls'))
          /\ ret' = [kind |-> "void"]
          /\ promises' = [promises EXCEPT ![p].request = "settled"]
          /\ UNCHANGED << _user, _permissions >>
    /\ UNCHANGED << session, _rightsAllSubscriptions, _noSession >>
    /\ held' = HeldNext
    /\ walked' = Walk(Lists')
    /\ resolved' = IF ret'.kind = "resolve" THEN UserObject ELSE NoObject

\* the rejection callback of brain.read('user') in the update() signin()
\* called: update()'s promise is rejected, and signin() gave it no rejection
\* handler, so the promise of signin() stays pending
SigninUpdateCatch(p, error) ==
    /\ promises[p].call = "signin"
    /\ promises[p].request = "inflight"
    /\ promises[p].awaits = "read"
    /\ op' = "signin.update.catch"
    /\ \/ /\ "handle" \in DOMAIN error
          /\ calls' = <<Call("handle", <<>>, error.handle, <<stringify(error)>>)>>
          /\ refs' = <<Primitive>>
          /\ ret' = [kind |-> "void"]
       \/ /\ "handle" \notin DOMAIN error
          /\ calls' = <<>>
          /\ refs' = <<>>
          /\ ret' = [kind |-> "unhandled rejection", value |-> error]
    /\ promises' = [promises EXCEPT ![p].request = "settled"]
    /\ UNCHANGED << stores, registries, _noSession >>
    /\ held' = HeldNext
    /\ walked' = Walk(Lists')
    /\ resolved' = NoObject
    /\ replaced' = ReplacedAfter(Len(calls'))

----------------------------------------------------------------------------
(* The specification *)

Next ==
    \/ \E callback \in { <<"n">>, NotAFunction } : OnNoSession(callback)
    \/ \E callback \in Callbacks, scope \in Scopes :
            PermissionsSubscribe(callback, scope[1], scope[2])
    \/ \E callback \in Callbacks, scope \in Scopes :
            PermissionsUnsubscribe(callback, scope[1], scope[2])
    \/ \E callback \in Callbacks : Subscribe(callback)
    \/ \E callback \in Callbacks : Unsubscribe(callback)
    \/ NoSessionHandler
    \/ \E p \in 1..MaxPromises : Update(p)
    \/ \E p \in 1..MaxPromises, data \in Users \cup {false} : UpdateThen(p, data)
    \/ \E p \in 1..MaxPromises, error \in Errors : UpdateCatch(p, error)

Spec == Init /\ [][Next]_vars

\* the rights codec alone: fetches that resolve with every raw value
NextCodec ==
    \/ \E p \in 1..MaxPromises : Update(p)
    \/ \E p \in 1..MaxPromises, data \in CodecUsers \cup ShapeUsers :
            UpdateThen(p, data)

SpecCodec == Init /\ [][NextCodec]_vars

\* the scopes and the fetched users of the session operations' specification
SessionScopes == { <<undefined, undefined>>, << <<"a">>, <<"b">> >> }
SessionUsers ==
    { [_id |-> "u1"], [_id |-> "u1", permissions |-> (<<"a">> :> (<<"b">> :> 3))] }

\* the session operations (signin, signout, signup, onNoSession, the
\* session-invalidated handler) with observers of the user store, of all
\* permissions and of (a, b)
NextSession ==
    \/ \E callback \in NoSessionCallbacks \cup {NotAFunction} : OnNoSession(callback)
    \/ \E callback \in Callbacks : Subscribe(callback)
    \/ \E callback \in Callbacks, scope \in SessionScopes :
            PermissionsSubscribe(callback, scope[1], scope[2])
    \/ NoSessionHandler
    \/ \E p \in 1..MaxPromises : Signout(p)
    \/ \E p \in 1..MaxPromises, data \in {true, false} : SignoutThen(p, data)
    \/ \E p \in 1..MaxPromises, error \in Errors : SignoutCatch(p, error)
    \/ \E p \in 1..MaxPromises, using \in SignupFields : Signup(p, using)
    \/ \E p \in 1..MaxPromises, data \in {true, false} : SignupThen(p, data)
    \/ \E p \in 1..MaxPromises, error \in Errors : SignupCatch(p, error)
    \/ \E p \in 1..MaxPromises, using \in Tokens \cup Credentials : Signin(p, using)
    \/ \E p \in 1..MaxPromises, data \in SigninReturns \cup {false} :
            SigninThen(p, data)
    \/ \E p \in 1..MaxPromises, error \in Errors : SigninCatch(p, error)
    \/ \E p \in 1..MaxPromises, data \in SessionUsers \cup {false} :
            SigninUpdateThen(p, data)
    \/ \E p \in 1..MaxPromises, error \in Errors : SigninUpdateCatch(p, error)

SpecSession == Init /\ [][NextSession]_vars

\* the sequences of callbacks of length n or less
ListsUpTo(n) == UNION { [1..k -> Callbacks] : k \in 0..n }

\* the module after a series of subscribe, permissionsSubscribe(f) and
\* permissionsSubscribe(f, a, b) calls that left MaxRegistered registrations
\* or fewer: every such three lists are reached by subscribing in their order
InitLists ==
    /\ \E u \in ListsUpTo(MaxRegistered), p \in ListsUpTo(MaxRegistered),
          r \in ListsUpTo(MaxRegistered) :
        /\ Len(u) + Len(p) + Len(r) <= MaxRegistered
        /\ _userSubscriptions = u
        /\ _permissionsSubscriptions = p
        /\ _rightsSubscriptions =
              IF r = <<>> THEN <<>>
              ELSE << [key |-> Key(<<"a">>, <<"b">>), subs |-> r] >>
    /\ _user = false
    /\ _permissions = <<>>
    /\ _rightsAllSubscriptions = <<>>
    /\ _noSession = undefined
    /\ session = null
    /\ promises = [p \in 1..MaxPromises |-> NoPromise]
    /\ op = "load"
    /\ ret = [kind |-> "void"]
    /\ calls = <<>>
    /\ refs = <<>>
    /\ held = HeldNow
    /\ replaced = <<>>
    /\ resolved = NoObject
    /\ walked = Walk(Lists)

\* registering, removing (by function and by handle) and replacing, from lists
\* that hold a callback several times
NextLists ==
    \/ \E callback \in Callbacks : Subscribe(callback)
    \/ \E callback \in Callbacks, scope \in SessionScopes :
            PermissionsSubscribe(callback, scope[1], scope[2])
    \/ \E callback \in Callbacks : Unsubscribe(callback)
    \/ \E callback \in Callbacks, scope \in SessionScopes :
            PermissionsUnsubscribe(callback, scope[1], scope[2])
    \/ HandleUnsubscribe
    \/ NoSessionHandler
    \/ \E p \in 1..MaxPromises : Update(p)
    \/ \E p \in 1..MaxPromises, data \in SessionUsers : UpdateThen(p, data)

SpecLists == InitLists /\ [][NextLists]_vars

\* the promises of two async calls made before either request is answered
RaceSlots == 1..(MaxPromises + 1)

InitRace ==
    /\ _user = false
    /\ _userSubscriptions = <<>>
    /\ _permissions = <<>>
    /\ _permissionsSubscriptions = <<>>
    /\ _rightsSubscriptions = <<>>
    /\ _rightsAllSubscriptions = <<>>
    /\ _noSession = undefined
    /\ session = null
    /\ promises = [p \in RaceSlots |-> NoPromise]
    /\ op = "load"
    /\ ret = [kind |-> "void"]
    /\ calls = <<>>
    /\ refs = <<>>
    /\ held = HeldNow
    /\ replaced = <<>>
    /\ resolved = NoObject
    /\ walked = Walk(Lists)

\* a user fetch in flight while the session is signed in, signed out or
\* invalidated, and two fetches in flight at once
NextRace ==
    \/ \E callback \in Callbacks : Subscribe(callback)
    \/ \E callback \in Callbacks, scope \in SessionScopes :
            PermissionsSubscribe(callback, scope[1], scope[2])
    \/ NoSessionHandler
    \/ \E p \in RaceSlots, using \in Tokens : Signin(p, using)
    \/ \E p \in RaceSlots, data \in SessionUsers : SigninUpdateThen(p, data)
    \/ \E p \in RaceSlots : Signout(p)
    \/ \E p \in RaceSlots, data \in {true, false} : SignoutThen(p, data)
    \/ \E p \in RaceSlots : Update(p)
    \/ \E p \in RaceSlots, data \in SessionUsers : UpdateThen(p, data)

SpecRace == InitRace /\ [][NextRace]_vars

\* replaces while observers of (a, RIGHTS_ALL_ID) and (a, b) are registered,
\* one of them a callback that unsubscribes f from (a, b) when it is notified
NextRemove ==
    \/ \E callback \in { <<"f">> } \cup Removers,
          id \in { RIGHTS_ALL_ID, <<"b">> } :
            PermissionsSubscribe(callback, <<"a">>, id)
    \/ NoSessionHandler
    \/ \E p \in 1..MaxPromises : Update(p)
    \/ \E p \in 1..MaxPromises, data \in SessionUsers : UpdateThen(p, data)

SpecRemove == Init /\ [][NextRemove]_vars

\* replaces while a callback that subscribes g when it is notified observes
\* the user store or all permissions
NextInside ==
    \/ \E callback \in { <<"f">> } \cup Subscribers : Subscribe(callback)
    \/ \E callback \in { <<"f">> } \cup Subscribers :
            PermissionsSubscribe(callback, undefined, undefined)
    \/ NoSessionHandler
    \/ \E p \in 1..MaxPromises : Update(p)
    \/ \E p \in 1..MaxPromises, data \in SessionUsers : UpdateThen(p, data)

SpecInside == Init /\ [][NextInside]_vars

\* a user object after the application wrote to one of its fields
Mutated(user) == [user EXCEPT !._id = "written"]

\* the caller of update() or signin() writes to the user object its promise
\* was just resolved with; the write shows in the store when the object is
\* the one _user refers to
MutateResolved ==
    /\ resolved # NoObject
    /\ op' = "mutate"
    /\ _user' = IF resolved = UserObject THEN Mutated(_user) ELSE _user
    /\ calls' = <<>>
    /\ refs' = <<>>
    /\ ret' = [kind |-> "void"]
    /\ UNCHANGED << _permissions, session, registries, _noSession, promises >>
    /\ held' = HeldNext
    /\ walked' = Walk(Lists')
    /\ resolved' = NoObject
    /\ replaced' = ReplacedAfter(Len(calls'))

\* fetches and sign-ins by token whose callers write to the user they get
NextAlias ==
    \/ \E callback \in Callbacks : Subscribe(callback)
    \/ NoSessionHandler
    \/ \E p \in 1..MaxPromises : Update(p)
    \/ \E p \in 1..MaxPromises, data \in SessionUsers : UpdateThen(p, data)
    \/ \E p \in 1..MaxPromises, using \in Tokens : Signin(p, using)
    \/ \E p \in 1..MaxPromises, data \in SessionUsers : SigninUpdateThen(p, data)
    \/ MutateResolved

SpecAlias == Init /\ [][NextAlias]_vars

\* a request issued on behalf of the call in slot p settles: its fulfilment
\* or its rejection callback runs
Settles(p) ==
    \/ \E data \in SessionUsers \cup {false} : UpdateThen(p, data)
    \/ \E error \in Errors : UpdateCatch(p, error)
    \/ \E data \in SigninReturns \cup {false} : SigninThen(p, data)
    \/ \E error \in Errors : SigninCatch(p, error)
    \/ \E data \in SessionUsers \cup {false} : SigninUpdateThen(p, data)
    \/ \E error \in Errors : SigninUpdateCatch(p, error)
    \/ \E data \in {true, false} : SignoutThen(p, data)
    \/ \E error \in Errors : SignoutCatch(p, error)

\* update, signin and signout calls and the settling of their requests,
\* with observers of the user store
NextSettle ==
    \/ \E callback \in Callbacks : Subscribe(callback)
    \/ \E p \in 1..MaxPromises : Update(p)
    \/ \E p \in 1..MaxPromises, using \in Tokens \cup Credentials : Signin(p, using)
    \/ \E p \in 1..MaxPromises : Signout(p)
    \/ \E p \in 1..MaxPromises : Settles(p)

\* the transport settles every request it was given: a request in flight is
\* not left in flight for ever
SpecSettle ==
    Init /\ [][NextSettle]_vars /\ \A p \in 1..MaxPromises : WF_vars(Settles(p))

\* the scopes the hooks subscribe with: all permissions (usePermissions),
\* (a, b) and (a, RIGHTS_ALL_ID) (useRights), and the name a:b alone
\* (useRightsAll)
HookScopes ==
    { <<undefined, undefined>>, << <<"a">>, <<"b">> >>,
      << <<"a">>, RIGHTS_ALL_ID >>, << <<"a", COLON, "b">>, undefined >> }

\* what a component does: it subscribes when it mounts and calls the
\* unsubscribe of the handle it got when it is torn down
NextHooks ==
    \/ \E callback \in Callbacks : Subscribe(callback)
    \/ \E callback \in Callbacks, scope \in HookScopes :
            PermissionsSubscribe(callback, scope[1], scope[2])
    \/ HandleUnsubscribe

SpecHooks == Init /\ [][NextHooks]_vars

\* replaces by update, signout and the session-invalidated handler, over
\* lists that hold up to MaxRegistered observers of the three kinds
NextOrder ==
    \/ NoSessionHandler
    \/ \E p \in 1..MaxPromises : Signout(p)
    \/ \E p \in 1..MaxPromises, data \in {true, false} : SignoutThen(p, data)
    \/ \E p \in 1..MaxPromises : Update(p)
    \/ \E p \in 1..MaxPromises, data \in SessionUsers : UpdateThen(p, data)

SpecOrder == InitLists /\ [][NextOrder]_vars

\* a user whose permissions hold an entry under each of (a, b), (a, b:b) and
\* (a:b, b), with three different raw values, and a user with (a, b) alone
KeyUsers ==
    { [_id |-> "u1",
       permissions |->
           (<<"a">> :> ((<<"b">> :> 3) @@ (<<"b", COLON, "b">> :> 2)))
           @@ (<<"a", COLON, "b">> :> (<<"b">> :> 1))],
      [_id |-> "u1", permissions |-> (<<"a">> :> (<<"b">> :> 1))] }

\* observers of (a:b, b), of (a, b:b) and of (a, b), and replaces of the map:
\* f alone subscribes to (a:b, b) and g alone to (a, b:b)
NextKeys ==
    \/ PermissionsSubscribe(<<"f">>, <<"a", COLON, "b">>, <<"b">>)
    \/ PermissionsSubscribe(<<"g">>, <<"a">>, <<"b", COLON, "b">>)
    \/ \E callback \in Callbacks : PermissionsSubscribe(callback, <<"a">>, <<"b">>)
    \/ \E callback \in Callbacks :
            PermissionsUnsubscribe(callback, <<"a">>, <<"b", COLON, "b">>)
    \/ NoSessionHandler
    \/ \E p \in 1..MaxPromises : Update(p)
    \/ \E p \in 1..MaxPromises, data \in KeyUsers : UpdateThen(p, data)

SpecKeys == Init /\ [][NextKeys]_vars

\* replaces while an observer that unsubscribes itself is registered
NextReentrant ==
    \/ \E callback \in Callbacks \cup Unsubscribers : Subscribe(callback)
    \/ \E callback \in Callbacks \cup Unsubscribers, scope \in SessionScopes :
            PermissionsSubscribe(callback, scope[1], scope[2])
    \/ NoSessionHandler
    \/ \E p \in 1..MaxPromises : Update(p)
    \/ \E p \in 1..MaxPromises, data \in SessionUsers : UpdateThen(p, data)

SpecReentrant == Init /\ [][NextReentrant]_vars

----------------------------------------------------------------------------
(* Vocabulary of the properties *)

\* how many times x occurs in the sequence arr
Occ(arr, x) == Cardinality({ i \in 1..Len(arr) : arr[i] = x })

\* the calls of the last step made from one observer list to one callback
CallsTo(list, key, f) ==
    { i \in 1..Len(calls) :
        calls[i].list = list /\ calls[i].key = key /\ calls[i].f = f }

\* names and ids without the separator
Plain(str) == \A i \in 1..Len(str) : str[i] # COLON
PlainNames == { n \in Names : Plain(n) }
PlainIds == { i \in Ids : Plain(i) }

\* the last step ran permissionsSet (after set): a resolved fetch or the
\* session-invalidated handler
PermissionsSetRan ==
    \/ op = "update.then" /\ ret.kind = "resolve"
    \/ op = "body.onNoSession"

\* the rights the store holds for (name, id), {} when it holds none
Granted(name, id) ==
    IF name \in DOMAIN _permissions
    THEN IF id \in DOMAIN _permissions[name] THEN _permissions[name][id] ELSE <<>>
    ELSE <<>>

----------------------------------------------------------------------------
(* C1 *)

\* C1: each permissionsSet invokes every all-permissions callback exactly once
\* per registration with the full new permission map, and every callback under
\* every name+id key (names and ids without ':') exactly once per registration
\* with the rights now stored at that name and id, or {} when there are none.
C1_FanOut ==
    PermissionsSetRan =>
        /\ \A f \in Callbacks :
            /\ Cardinality(CallsTo("permissions", <<>>, f))
                  = Occ(_permissionsSubscriptions, f)
            /\ \A i \in CallsTo("permissions", <<>>, f) :
                  calls[i].args = <<_permissions>>
        /\ \A name \in PlainNames, id \in PlainIds, f \in Callbacks :
            /\ Cardinality(CallsTo("rights", Key(name, id), f))
                  = Occ(ListAt(_rightsSubscriptions, Key(name, id)), f)
            /\ \A i \in CallsTo("rights", Key(name, id), f) :
                  calls[i].args = <<Granted(name, id)>>

\* C1 witness: a permissionsSet that notified an all-permissions callback and a
\* scoped callback, the latter with rights that are not empty
C1_Witness ==
    /\ PermissionsSetRan
    /\ \E i, j \in 1..Len(calls) :
        /\ calls[i].list = "permissions"
        /\ calls[i].args # << <<>> >>
        /\ calls[j].list = "rights"
        /\ calls[j].key = Key(<<"a">>, <<"b">>)
        /\ calls[j].args # << <<>> >>

----------------------------------------------------------------------------
(* C2 *)

\* C2: subscribe, and permissionsSubscribe in the all-permissions and the
\* name+id scope, invoke the callback exactly once before returning, with the
\* value the store holds, and the handle's data is the value delivered.
C2_SubscribeDelivers ==
    /\ op = "subscribe" =>
        /\ calls = <<Call("user", <<>>, ret.unsubscribe[1], <<_user>>)>>
        /\ ret.data = _user
    /\ (op = "permissionsSubscribe" /\ ret.kind = "handle") =>
        LET callback == ret.unsubscribe[1]
            name     == ret.unsubscribe[2]
            id       == ret.unsubscribe[3]
        IN  /\ name = undefined =>
                /\ calls = <<Call("permissions", <<>>, callback, <<_permissions>>)>>
                /\ ret.data = _permissions
            /\ (name # undefined /\ id # undefined) =>
                /\ calls = <<Call("rights", Key(name, id), callback,
                                  <<Granted(name, id)>>)>>
                /\ ret.data = Granted(name, id)

\* C2 witness: a name+id subscription made while the store holds rights for it
C2_Witness ==
    /\ op = "permissionsSubscribe"
    /\ ret.kind = "handle"
    /\ ret.unsubscribe[3] # undefined
    /\ ret.data # <<>>
    /\ Len(calls) = 1

----------------------------------------------------------------------------
(* C3 *)

\* what C3 asks of an unsubscribe step that looks for a callback in a list
\* holding it n times, given what the list holds afterwards
C3_Removed(n, after, callback) ==
    /\ n = 1 => (ret'.value = TRUE /\ Occ(after, callback) = 0)
    /\ n = 0 => ret'.value = FALSE

\* what C3 asks of one step
C3_Step ==
    /\ op' = "unsubscribe" =>
        \A callback \in Callbacks :
            Unsubscribe(callback) =>
                C3_Removed(Occ(_userSubscriptions, callback),
                           _userSubscriptions', callback)
    /\ op' = "permissionsUnsubscribe" =>
        \A callback \in Callbacks :
            /\ PermissionsUnsubscribe(callback, undefined, undefined) =>
                C3_Removed(Occ(_permissionsSubscriptions, callback),
                           _permissionsSubscriptions', callback)
            /\ \A name \in Names, id \in Ids :
                PermissionsUnsubscribe(callback, name, id) =>
                    C3_Removed(
                        Occ(ListAt(_rightsSubscriptions, Key(name, id)), callback),
                        ListAt(_rightsSubscriptions', Key(name, id)), callback)
    /\ (op' = "update.then" \/ op' = "body.onNoSession") =>
        \A i \in 1..Len(calls') :
            /\ calls'[i].list = "user" =>
                  Occ(_userSubscriptions, calls'[i].f) > 0
            /\ calls'[i].list = "permissions" =>
                  Occ(_permissionsSubscriptions, calls'[i].f) > 0
            /\ calls'[i].list = "rights" =>
                  Occ(ListAt(_rightsSubscriptions, calls'[i].key), calls'[i].f) > 0

\* C3: for a callback registered once in a scope (user, all-permissions,
\* name+id) unsubscribing returns true and removes it, unsubscribing a callback
\* that is not registered returns false, and a set or permissionsSet invokes
\* no callback that is not registered in the list it notifies.
C3_UnsubscribeOnce == [][C3_Step]_vars

\* C3 witness: a scoped unsubscribe returned true and left the other
\* registration of the key in place
C3_Witness ==
    /\ op = "permissionsUnsubscribe"
    /\ ret.value = TRUE
    /\ Len(_rightsSubscriptions) = 1
    /\ Len(_rightsSubscriptions[1].subs) = 1

----------------------------------------------------------------------------
(* C4 *)

\* what C4 asks of one step: after permissionsSet(raw) the names and ids of
\* the map are those of raw, whatever the map held before
C4_Step ==
    LET raw == IF op' = "update.then" THEN PermissionsOr(ret'.value) ELSE <<>>
    IN  ((op' = "update.then" /\ ret'.kind = "resolve") \/ op' = "body.onNoSession") =>
            /\ DOMAIN _permissions' = DOMAIN raw
            /\ \A name \in DOMAIN raw :
                  DOMAIN _permissions'[name] = DOMAIN raw[name]
            /\ \A name \in DOMAIN _permissions :
                /\ name \notin DOMAIN raw => name \notin DOMAIN _permissions'
                /\ name \in DOMAIN raw =>
                      \A id \in DOMAIN _permissions[name] :
                          id \notin DOMAIN raw[name] =>
                              id \notin DOMAIN _permissions'[name]

\* C4: permissionsSet(raw) leaves exactly the names of raw and, under each
\* name, exactly the ids of raw[name]; nothing of the previous map remains.
C4_ReplacedWholesale == [][C4_Step]_vars

\* C4 witness: the session-invalidated handler ran on a store filled by a
\* fetch whose user had permission entries, and the map is empty
C4_Witness ==
    /\ op = "body.onNoSession"
    /\ \E p \in 1..MaxPromises :
        /\ promises[p].state = "resolved"
        /\ "permissions" \in DOMAIN promises[p].value
        /\ \E name \in DOMAIN promises[p].value.permissions :
              promises[p].value.permissions[name] # <<>>
    /\ _permissions = <<>>

----------------------------------------------------------------------------
(* C5 *)

\* bit b (a power of two) of v is set
C5_Bit(v, b) == (v \div b) % 2 = 1

\* C5: the rights stored for a raw value v hold create iff bit 0x01 of v is
\* set, read iff 0x02, update iff 0x04, delete iff 0x08, each as true, and
\* nothing else, whatever the higher bits of v are.
C5_Decodes ==
    (op = "update.then" /\ ret.kind = "resolve") =>
        \A name \in DOMAIN ret.value.permissions :
            \A id \in DOMAIN ret.value.permissions[name] :
                LET v == ret.value.permissions[name][id]
                    r == _permissions[name][id]
                IN  /\ DOMAIN r \subseteq
                          { <<"create">>, <<"read">>, <<"update">>, <<"delete">> }
                    /\ <<"create">> \in DOMAIN r <=> C5_Bit(v, 1)
                    /\ <<"read">> \in DOMAIN r <=> C5_Bit(v, 2)
                    /\ <<"update">> \in DOMAIN r <=> C5_Bit(v, 4)
                    /\ <<"delete">> \in DOMAIN r <=> C5_Bit(v, 8)
                    /\ \A s \in DOMAIN r : r[s] = TRUE

\* C5 witness: raw value 0x15 (a bit above 0x08 set) stored as {create, update}
C5_Witness ==
    /\ op = "update.then"
    /\ ret.kind = "resolve"
    /\ ret.value.permissions = (<<"a">> :> (<<"b">> :> 21))
    /\ _permissions =
          (<<"a">> :> (<<"b">> :> ((<<"create">> :> TRUE) @@ (<<"update">> :> TRUE))))

----------------------------------------------------------------------------
(* C6 *)

\* what C6 asks of one step
C6_Step ==
    op' = "permissionsSubscribe" =>
        \A callback \in Callbacks, name \in Names :
            PermissionsSubscribe(callback, name, undefined) =>
                /\ ret'.kind = "handle"
                /\ Len(calls') = 1
                /\ calls'[1].f = callback
                /\ calls'[1].args = <<RightsAllAt(_permissions, name)>>
                /\ \/ Occ(ListAt(_rightsAllSubscriptions', name), callback)
                        = Occ(ListAt(_rightsAllSubscriptions, name), callback) + 1
                   \/ Occ(ListAt(_rightsSubscriptions', name), callback)
                        = Occ(ListAt(_rightsSubscriptions, name), callback) + 1

\* C6: permissionsSubscribe(callback, name) without id raises no error for any
\* name, registers the callback, and calls it once with a copy of the
\* id -> rights map stored under the name ({} when the name is absent).
C6_NameOnlySubscribes == [][C6_Step]_vars

----------------------------------------------------------------------------
(* C7 *)

\* what C7 asks of one step
C7_Step ==
    op' = "permissionsSubscribe" =>
        \A callback \in Callbacks, name \in Names :
            PermissionsSubscribe(callback, name, undefined) =>
                LET k == Key(name, RIGHTS_ALL_ID)
                IN  /\ Occ(ListAt(_rightsSubscriptions', k), callback)
                          = Occ(ListAt(_rightsSubscriptions, k), callback) + 1
                    /\ calls' = <<Call("rights", k, callback,
                                       <<RightsAt(_permissions, name, RIGHTS_ALL_ID)>>)>>

\* C7: a callback subscribed with (name) and no id is registered under the
\* key of (name, RIGHTS_ALL_ID) and receives the values a callback subscribed
\* with (name, RIGHTS_ALL_ID) receives.
C7_ScopesCollapse == [][C7_Step]_vars

----------------------------------------------------------------------------
(* C8 *)

\* the rights a raw value stands for, bit by bit
C8_Rights(v) ==
    [s \in { t \in { <<"create">>, <<"read">>, <<"update">>, <<"delete">> } :
                \/ t = <<"create">> /\ C5_Bit(v, 1)
                \/ t = <<"read">> /\ C5_Bit(v, 2)
                \/ t = <<"update">> /\ C5_Bit(v, 4)
                \/ t = <<"delete">> /\ C5_Bit(v, 8) } |-> TRUE]

\* C8: when the fetch of update() resolves with a user u, the user store holds
\* u, the permission map is the decoding of u.permissions (empty without that
\* field), the observers of both stores are notified and the promise resolves
\* with u; permissions {a: {b: 0x03}} give {create, read} for (a, b) and {}
\* for another id of a.
C8_UpdateResolves ==
    (op = "update.then" /\ ret.kind = "resolve") =>
        LET u   == ret.value
            raw == IF "permissions" \in DOMAIN u THEN u.permissions ELSE <<>>
        IN  /\ _user = u
            /\ DOMAIN _permissions = DOMAIN raw
            /\ \A name \in DOMAIN raw :
                /\ DOMAIN _permissions[name] = DOMAIN raw[name]
                /\ \A id \in DOMAIN raw[name] :
                      _permissions[name][id] = C8_Rights(raw[name][id])
            /\ promises[ret.promise].state = "resolved"
            /\ promises[ret.promise].value = u
            /\ \A f \in Callbacks :
                /\ Cardinality(CallsTo("user", <<>>, f)) = Occ(_userSubscriptions, f)
                /\ \A i \in CallsTo("user", <<>>, f) : calls[i].args = <<u>>
                /\ Cardinality(CallsTo("permissions", <<>>, f))
                      = Occ(_permissionsSubscriptions, f)
                /\ \A i \in CallsTo("permissions", <<>>, f) :
                      calls[i].args = <<_permissions>>
            /\ raw = (<<"a">> :> (<<"b">> :> 3)) =>
                /\ Granted(<<"a">>, <<"b">>)
                      = ((<<"create">> :> TRUE) @@ (<<"read">> :> TRUE))
                /\ Granted(<<"a">>, RIGHTS_ALL_ID) = <<>>

\* C8 witness: a fetch resolved with permissions {a: {b: 0x03}} while a user
\* observer and an all-permissions observer were registered
C8_Witness ==
    /\ op = "update.then"
    /\ ret.kind = "resolve"
    /\ "permissions" \in DOMAIN ret.value
    /\ ret.value.permissions = (<<"a">> :> (<<"b">> :> 3))
    /\ Len(_userSubscriptions) = 1
    /\ Len(_permissionsSubscriptions) = 1
    /\ Len(calls) = 2

----------------------------------------------------------------------------
(* C9 *)

\* what C9 asks of one step
C9_Step ==
    op' = "update.catch" =>
        \A p \in 1..MaxPromises, error \in Errors :
            ("handle" \notin DOMAIN error /\ UpdateCatch(p, error)) =>
                /\ promises'[p].state = "rejected"
                /\ promises'[p].value = error
                /\ UNCHANGED << _user, _permissions, session >>
                /\ UNCHANGED << _userSubscriptions, _permissionsSubscriptions,
                                _rightsSubscriptions, _rightsAllSubscriptions >>
                /\ calls' = <<>>

\* C9: when the fetch of update() rejects with a transport error (one without
\* a handle function), update() rejects with that error, the user store, the
\* permission map, the session token and the observer lists are unchanged and
\* no observer is invoked.
C9_UpdateRejects == [][C9_Step]_vars

\* C9 witness: update() rejected while a user was signed in and observed
C9_Witness ==
    /\ op = "update.catch"
    /\ ret.kind = "reject"
    /\ promises[ret.promise].state = "rejected"
    /\ _user # false
    /\ _permissions # <<>>
    /\ TotalSubs > 0

----------------------------------------------------------------------------
(* C10 *)

\* what C10 asks of one step
C10_Step ==
    op' = "update.catch" =>
        \A p \in 1..MaxPromises, error \in Errors :
            ("handle" \in DOMAIN error /\ UpdateCatch(p, error)) =>
                /\ Len(calls') = 1
                /\ calls'[1].f = error.handle
                /\ promises'[p].state # "rejected"
                /\ UNCHANGED << _user, _permissions >>

----------------------------------------------------------------------------
(* C11 *)

\* every registration of every observer list got exactly one call in the last
\* step: the user observers with user, the all-permissions observers with
\* perms, the observers under every key with {}
EachNotifiedOnce(user, perms) ==
    \A f \in Callbacks :
        /\ Cardinality(CallsTo("user", <<>>, f)) = Occ(_userSubscriptions, f)
        /\ \A i \in CallsTo("user", <<>>, f) : calls[i].args = <<user>>
        /\ Cardinality(CallsTo("permissions", <<>>, f))
              = Occ(_permissionsSubscriptions, f)
        /\ \A i \in CallsTo("permissions", <<>>, f) : calls[i].args = <<perms>>
        /\ \A k \in KeysOf(_rightsSubscriptions) :
            /\ Cardinality(CallsTo("rights", k, f))
                  = Occ(SubsOf(_rightsSubscriptions, k), f)
            /\ \A i \in CallsTo("rights", k, f) : calls[i].args = << <<>> >>

\* C11: when the request of signout() resolves with true, the session token is
\* cleared, the user store holds false, the permission map is {}, every user
\* observer is called with false, every all-permissions observer with {}, every
\* scoped observer with {}, and the promise of signout() is resolved with true.
C11_SignoutClears ==
    (op = "signout.then" /\ ret.value = true) =>
        /\ session = null
        /\ _user = false
        /\ _permissions = <<>>
        /\ EachNotifiedOnce(false, <<>>)
        /\ promises[ret.promise].state = "resolved"
        /\ promises[ret.promise].value = true

\* C11 witness: a sign-out resolved with true and notified a user observer and
\* a scoped observer
C11_Witness ==
    /\ op = "signout.then"
    /\ ret.value = true
    /\ \E i, j \in 1..Len(calls) :
          calls[i].list = "user" /\ calls[j].list = "rights"

----------------------------------------------------------------------------
(* C12 *)

\* the place of a call in the order C12 states: the token, the user store,
\* the permission store, the application's callback
C12_Rank(c) ==
    IF c.list = "brain" THEN 1
    ELSE IF c.list = "user" THEN 2
    ELSE IF c.list = "permissions" \/ c.list = "rights" THEN 3
    ELSE IF c.list = "noSession" THEN 4
    ELSE 0

\* C12: the session-invalidated handler clears the token, then sets the user
\* store to false and notifies the user observers, then replaces the permission
\* map with {} and notifies the permission observers, then calls the registered
\* no-session callback once without arguments; with no callback registered
\* the resets happen and nothing else is called.
C12_HandlerOrder ==
    op = "body.onNoSession" =>
        /\ session = null
        /\ _user = false
        /\ _permissions = <<>>
        /\ calls[1] = Brain(<<"session">>, <<null>>)
        /\ \A i, j \in 1..Len(calls) :
              i < j => (C12_Rank(calls[i]) > 0 /\ C12_Rank(calls[i]) <= C12_Rank(calls[j]))
        /\ EachNotifiedOnce(false, <<>>)
        /\ LET last == { i \in 1..Len(calls) : calls[i].list = "noSession" }
               told == { i \in 1..Len(calls) :
                           calls[i].list \in {"user", "permissions", "rights"} }
           IN  /\ _noSession # undefined =>
                    /\ last = { Len(calls) }
                    /\ calls[Len(calls)].f = _noSession
                    /\ calls[Len(calls)].args = <<>>
               /\ _noSession = undefined => last = {}
               /\ Len(calls) = 1 + Cardinality(told) + Cardinality(last)
               /\ Cardinality(told) = TotalSubs - Len(_rightsAllSubscriptions)

\* C12 witness: the handler ran with a no-session callback registered and a
\* user observer and a permission observer to notify
C12_Witness ==
    /\ op = "body.onNoSession"
    /\ _noSession # undefined
    /\ Len(calls) = 4
    /\ calls[2].list = "user"
    /\ calls[3].list \in {"permissions", "rights"}
    /\ calls[4].list = "noSession"

----------------------------------------------------------------------------
(* C13 *)

\* the stores hold the user u and the decoding of u.permissions
StoresHold(u) ==
    LET raw == IF "permissions" \in DOMAIN u THEN u.permissions ELSE <<>>
    IN  /\ _user = u
        /\ DOMAIN _permissions = DOMAIN raw
        /\ \A name \in DOMAIN raw :
            /\ DOMAIN _permissions[name] = DOMAIN raw[name]
            /\ \A id \in DOMAIN raw[name] :
                  _permissions[name][id] = C8_Rights(raw[name][id])

\* C13: signin(token) with a string sets the session token to that token and
\* then issues the user fetch; when the fetch succeeds the promise resolves
\* with {session: token, user}, in a state where the user store and the
\* permission map have been replaced from the fetched user.
C13_SigninToken ==
    /\ (op = "signin" /\ promises[ret.promise].token \in Tokens) =>
        /\ session = promises[ret.promise].token
        /\ calls = <<Brain(<<"session">>, <<session>>),
                     Brain(<<"read">>, << <<"user">> >>)>>
        /\ promises[ret.promise].state = "pending"
    /\ (op = "signin.update.then" /\ ret.kind = "resolve"
            /\ promises[ret.promise].token \in Tokens) =>
        /\ ret.value.session = promises[ret.promise].token
        /\ promises[ret.promise].state = "resolved"
        /\ promises[ret.promise].value = ret.value
        /\ StoresHold(ret.value.user)

\* C13 witness: a signin with a token resolved after the session it had set
\* was cleared, with a user that has permissions
C13_Witness ==
    /\ op = "signin.update.then"
    /\ ret.kind = "resolve"
    /\ ret.value.session \in Tokens
    /\ session = null
    /\ _permissions # <<>>

----------------------------------------------------------------------------
(* C14 *)

\* what C14 asks of one step
C14_Step ==
    /\ op' = "signin" =>
        \A p \in 1..MaxPromises, using \in Credentials :
            Signin(p, using) =>
                /\ UNCHANGED session
                /\ calls' = <<Brain(<<"create">>, << <<"signin">>, using >>)>>
    /\ op' = "signin.then" =>
        \A p \in 1..MaxPromises, data \in SigninReturns :
            SigninThen(p, data) =>
                /\ session' = data.session
                /\ calls' = <<Brain(<<"session">>, <<data.session>>),
                              Brain(<<"read">>, << <<"user">> >>)>>
                /\ promises'[p].token = data.session
                /\ promises'[p].state = "pending"
    /\ op' = "signin.update.then" =>
        \A p \in 1..MaxPromises, user \in SessionUsers :
            (promises[p].token \notin Tokens /\ SigninUpdateThen(p, user)) =>
                /\ promises'[p].state = "resolved"
                /\ promises'[p].value =
                      [session |-> promises[p].token, user |-> user]

\* C14: signin({email, passwd}) leaves the session token alone until the
\* create-signin request has resolved, then sets it to the session of the
\* response and after that issues the user fetch, and resolves with
\* {session, user}: the response's session and the fetched user.
C14_SigninCredentials == [][C14_Step]_vars

\* C14 witness: a signin with credentials resolved with the session of the
\* create-signin response and a fetched user
C14_Witness ==
    /\ op = "signin.update.then"
    /\ ret.kind = "resolve"
    /\ \E data \in SigninReturns : ret.value.session = data.session
    /\ _user = ret.value.user

----------------------------------------------------------------------------
(* C15 *)

\* C15: a transport rejection during signin(), of the create-signin request
\* or of the user fetch that follows it (token and credentials variant),
\* rejects the promise of signin() with that error.
C15_SigninPropagates ==
    /\ op = "signin.catch" =>
        /\ promises[ret.promise].state = "rejected"
        /\ promises[ret.promise].value = ret.value
    /\ (op = "signin.update.catch" /\ ret.kind = "unhandled rejection") =>
        \E p \in 1..MaxPromises :
            /\ promises[p].call = "signin"
            /\ promises[p].state = "rejected"
            /\ promises[p].value = ret.value

----------------------------------------------------------------------------
(* C16 *)

\* what C16 asks of one step
C16_Step ==
    op' = "signout.catch" =>
        \A p \in 1..MaxPromises, error \in Errors :
            SignoutCatch(p, error) =>
                /\ promises'[p].state = "rejected"
                /\ promises'[p].value = error
                /\ UNCHANGED << session, _user, _permissions >>
                /\ calls' = <<>>

\* C16: when the request of signout() rejects, signout() rejects with the same
\* error, the session token, the user store and the permission map are
\* unchanged and no observer is invoked.
C16_SignoutRejects == [][C16_Step]_vars

\* C16 witness: a sign-out was rejected while a user was signed in, with a
\* session token set and observers registered
C16_Witness ==
    /\ op = "signout.catch"
    /\ promises[ret.promise].state = "rejected"
    /\ _user # false
    /\ session # null
    /\ Len(_userSubscriptions) > 0

----------------------------------------------------------------------------
(* C17 *)

\* what C17 asks of one step
C17_Step ==
    /\ (op' = "signup" \/ op' = "signup.then" \/ op' = "signup.catch") =>
        /\ UNCHANGED << session, _user, _permissions >>
        /\ UNCHANGED << _userSubscriptions, _permissionsSubscriptions,
                        _rightsSubscriptions, _rightsAllSubscriptions >>
        /\ \A i \in 1..Len(calls') : calls'[i].list = "brain"
    /\ op' = "signup.then" =>
        \A p \in 1..MaxPromises, data \in {true, false} :
            SignupThen(p, data) =>
                /\ promises'[p].state = "resolved"
                /\ promises'[p].value = data
    /\ op' = "signup.catch" =>
        \A p \in 1..MaxPromises, error \in Errors :
            SignupCatch(p, error) =>
                /\ promises'[p].state = "rejected"
                /\ promises'[p].value = error

\* C17: signup(fields) resolves with the value, or rejects with the error, the
\* create-signup request settles with, and no step of it changes the session
\* token, the user store, the permission map or an observer list or invokes
\* an observer.
C17_SignupPassesThrough == [][C17_Step]_vars

\* C17 witness: a signup resolved with false while a user was signed in and
\* observed
C17_Witness ==
    /\ op = "signup.then"
    /\ promises[ret.promise].state = "resolved"
    /\ promises[ret.promise].value = false
    /\ _user # false
    /\ TotalSubs > 0

----------------------------------------------------------------------------
(* C18 *)

\* what C18 asks of one step
C18_Step ==
    (op' = "onNoSession" /\ OnNoSession(NotAFunction)) =>
        /\ ret'.kind = "throw"
        /\ UNCHANGED _noSession
        /\ UNCHANGED << session, _user, _permissions >>
        /\ UNCHANGED << _userSubscriptions, _permissionsSubscriptions,
                        _rightsSubscriptions, _rightsAllSubscriptions >>
        /\ calls' = <<>>

\* C18: onNoSession called with a value that is not a function throws and
\* changes nothing: the callback registered before stays registered and the
\* user store, the permission map and the observer lists are untouched.
C18_InvalidCallbackThrows == [][C18_Step]_vars

\* C18 witness: the call threw while a callback was registered, a user was
\* signed in and an observer was registered
C18_Witness ==
    /\ op = "onNoSession"
    /\ ret.kind = "throw"
    /\ _noSession \in NoSessionCallbacks
    /\ _user # false
    /\ TotalSubs > 0

----------------------------------------------------------------------------
(* C19 *)

\* what C19 asks of one step: a registration makes its function the current
\* one, no other step changes the current one, and the handler calls the
\* current one once and no other
C19_Step ==
    /\ (op' = "onNoSession" /\ ret'.kind = "void") =>
        \A callback \in NoSessionCallbacks :
            OnNoSession(callback) => _noSession' = callback
    /\ ~(op' = "onNoSession" /\ ret'.kind = "void") => UNCHANGED _noSession
    /\ op' = "body.onNoSession" =>
        LET told == { i \in 1..Len(calls') : calls'[i].list = "noSession" }
        IN  /\ \A i \in told : calls'[i].f = _noSession
            /\ Cardinality(told) = IF _noSession = undefined THEN 0 ELSE 1

\* C19: after several calls of onNoSession with functions, a session-
\* invalidated event invokes the function registered last, once, and none of
\* those registered before it.
C19_LastCallbackOnly == [][C19_Step]_vars

\* C19 witness: the handler invoked the callback m, which the application
\* registers besides n
C19_Witness ==
    /\ op = "body.onNoSession"
    /\ _noSession = <<"m">>
    /\ calls[Len(calls)] = Call("noSession", <<>>, <<"m">>, <<>>)

----------------------------------------------------------------------------
(* C20 *)

\* the calls of the last step made to observers
ObserverCalls ==
    { i \in 1..Len(calls) : calls[i].list \in {"user", "permissions", "rights"} }

\* C20: what an observer callback is passed, at subscribe time or on a
\* replace, is no object the stores hold and no object passed to another
\* call: it is a copy made for that call (or the value false, which cannot be
\* mutated), so that mutating it reaches neither the stores nor what another
\* observer received or will receive.
C20_CopiesNotShared ==
    /\ Len(refs) = Len(calls)
    /\ \A i \in ObserverCalls :
        /\ refs[i].object \in {"fresh", "primitive"}
        /\ refs[i].object = "primitive" =>
              (calls[i].list = "user" /\ calls[i].args = <<false>>)
        /\ refs[i].object = "fresh" =>
              \A j \in 1..Len(refs) : j # i => refs[j] # refs[i]

\* C20 witness: a fetched user was passed to two user observers, as two copies
C20_Witness ==
    /\ op = "update.then"
    /\ Len(calls) = 2
    /\ calls[1].list = "user"
    /\ calls[2].list = "user"
    /\ refs[1].object = "fresh"
    /\ refs[2].object = "fresh"

----------------------------------------------------------------------------
(* C21 *)

\* the last step ran set(user), and permissionsSet after it
SetRan ==
    \/ op = "update.then" /\ ret.kind = "resolve"
    \/ op = "signin.update.then" /\ ret.kind = "resolve"
    \/ op = "signout.then" /\ ret.value = true
    \/ op = "body.onNoSession"

\* the value the last step called set with
SetValue ==
    IF op = "update.then" THEN ret.value
    ELSE IF op = "signin.update.then" THEN ret.value.user
    ELSE false

\* C21: every set(user), with a user or with false, leaves the user store
\* holding that value and calls every registered user callback exactly once
\* per registration with a value equal to it (callbacks that neither
\* subscribe nor unsubscribe while notified).
C21_SetNotifiesAll ==
    SetRan =>
        /\ _user = SetValue
        /\ \A f \in Callbacks :
            /\ Cardinality(CallsTo("user", <<>>, f)) = Occ(_userSubscriptions, f)
            /\ \A i \in CallsTo("user", <<>>, f) : calls[i].args = <<SetValue>>

\* C21 witness: a fetched user replaced the user store with two different
\* user callbacks registered, both called
C21_Witness ==
    /\ op = "update.then"
    /\ ret.kind = "resolve"
    /\ Len(_userSubscriptions) = 2
    /\ _userSubscriptions[1] # _userSubscriptions[2]
    /\ Len(calls) = 2
    /\ calls[1].args = <<_user>>
    /\ calls[2].args = <<_user>>

----------------------------------------------------------------------------
(* C22 *)

\* the callbacks the last step called from one observer list, in call order
CalledFrom(list, key) ==
    LET made == SelectSeq(calls, LAMBDA c : c.list = list /\ c.key = key)
    IN  [i \in 1..Len(made) |-> made[i].f]

\* C22: on a replace the callbacks of one observer list (user,
\* all-permissions, one scoped key) are called in the order they were
\* registered and without deduplication: the callbacks called from a list,
\* in call order, are the list itself, so one registered n times is called n
\* times.
C22_RegistrationOrder ==
    SetRan =>
        /\ CalledFrom("user", <<>>) = _userSubscriptions
        /\ CalledFrom("permissions", <<>>) = _permissionsSubscriptions
        /\ \A k \in KeysOf(_rightsSubscriptions) :
              CalledFrom("rights", k) = SubsOf(_rightsSubscriptions, k)

\* C22 witness: a replace with one callback registered twice around another
\* in the all-permissions list, called first, second and third in that order
C22_Witness ==
    /\ op = "update.then"
    /\ ret.kind = "resolve"
    /\ _permissionsSubscriptions = << <<"f">>, <<"g">>, <<"f">> >>
    /\ CalledFrom("permissions", <<>>) = << <<"f">>, <<"g">>, <<"f">> >>

----------------------------------------------------------------------------
(* C23 *)

\* list after is list before without the first occurrence of x
C23_FirstRemoved(before, after, x) ==
    \E i \in 1..Len(before) :
        /\ before[i] = x
        /\ \A j \in 1..(i - 1) : before[j] # x
        /\ Len(after) = Len(before) - 1
        /\ \A j \in 1..Len(after) :
              after[j] = IF j < i THEN before[j] ELSE before[j + 1]

\* the scoped keys other than k hold the lists they held
C23_OtherKeysKept(k) ==
    \A other \in (KeysOf(_rightsSubscriptions) \cup KeysOf(_rightsSubscriptions'))
                  \ {k} :
        ListAt(_rightsSubscriptions', other) = ListAt(_rightsSubscriptions, other)

\* what C23 asks of one step
C23_Step ==
    /\ op' \in {"unsubscribe", "permissionsUnsubscribe"} =>
        /\ UNCHANGED << stores, _rightsAllSubscriptions, _noSession >>
        /\ ret'.value = FALSE => UNCHANGED registries
    /\ op' = "unsubscribe" /\ ret'.value = TRUE =>
        \A callback \in Callbacks :
            Unsubscribe(callback) =>
                /\ C23_FirstRemoved(_userSubscriptions, _userSubscriptions', callback)
                /\ UNCHANGED << _permissionsSubscriptions, _rightsSubscriptions >>
    /\ op' = "permissionsUnsubscribe" /\ ret'.value = TRUE =>
        \A callback \in Callbacks :
            /\ PermissionsUnsubscribe(callback, undefined, undefined) =>
                /\ C23_FirstRemoved(_permissionsSubscriptions,
                                    _permissionsSubscriptions', callback)
                /\ UNCHANGED << _userSubscriptions, _rightsSubscriptions >>
            /\ \A name \in Names, id \in Ids \cup {undefined} :
                PermissionsUnsubscribe(callback, name, id) =>
                    LET k == Key(name, IF id = undefined THEN RIGHTS_ALL_ID ELSE id)
                    IN  /\ C23_FirstRemoved(ListAt(_rightsSubscriptions, k),
                                            ListAt(_rightsSubscriptions', k),
                                            callback)
                        /\ C23_OtherKeysKept(k)
                        /\ UNCHANGED << _userSubscriptions,
                                        _permissionsSubscriptions >>

\* C23: a successful unsubscribe / permissionsUnsubscribe removes exactly the
\* first occurrence of the callback in the addressed list and leaves every
\* other registration (later occurrences, other callbacks and their order,
\* other keys, other lists) and the stores unchanged; one that returns false
\* leaves all lists unchanged.
C23_RemovesFirstOnly == [][C23_Step]_vars

\* C23 witness: an unsubscribe from a user list of three registrations left
\* two different callbacks, so the list held the removed callback twice or
\* another one behind it
C23_Witness ==
    /\ op = "unsubscribe"
    /\ ret.value = TRUE
    /\ _userSubscriptions = << <<"g">>, <<"f">> >>

----------------------------------------------------------------------------
(* C24 *)

\* what C24 asks of one step: unsubscribe() of a handle, called again right
\* after it was called, finds nothing to remove
C24_Step ==
    (op = "handle.unsubscribe" /\ op' = "handle.unsubscribe") =>
        UNCHANGED registries

\* C24: unsubscribe() of a handle returned by subscribe or
\* permissionsSubscribe is idempotent: a second call leaves every observer
\* list as the first call left it, also when the same callback is registered
\* a second time in the same scope.
C24_HandleIdempotent == [][C24_Step]_vars

----------------------------------------------------------------------------
(* C25 *)

\* C25: no scoped registry (_rightsSubscriptions, keyed by name and id, and
\* _rightsAllSubscriptions, keyed by name) holds a key whose observer list is
\* empty: a key goes when its last observer is removed and none is left
\* behind without an observer.
C25_NoEmptyKeys ==
    /\ \A i \in 1..Len(_rightsSubscriptions) : _rightsSubscriptions[i].subs # <<>>
    /\ \A i \in 1..Len(_rightsAllSubscriptions) :
          _rightsAllSubscriptions[i].subs # <<>>

----------------------------------------------------------------------------
(* C27 *)

\* what C27 asks of one step: the answer to a user fetch sent while a session
\* was set, arriving with a user after the session was reset, is stored, and
\* the session token stays null
C27_Step ==
    \A p \in DOMAIN promises, data \in SessionUsers :
        (UpdateThen(p, data) /\ promises[p].sent # null /\ session = null) =>
            /\ StoresHold(data)'
            /\ session' = null
            /\ ret' = [kind |-> "resolve", promise |-> p, value |-> data]

\* C27: nothing cancels or orders a pending update() against a sign-out: when
\* the fetch was sent while signed in, a signout resolving true or a
\* session-invalidated event then reset the stores, and the fetch afterwards
\* resolves with a user, the stores end up holding that user and its
\* permissions while the session token is null.
C27_StaleFetchOverwrites == [][C27_Step]_vars

\* C27 witness: the answer to a fetch sent under a token was just stored and
\* passed to a user observer although the session was reset since (the token
\* is null), with the promise of a signout resolved with true in the other
\* slot
C27_Witness ==
    /\ op = "update.then"
    /\ ret.kind = "resolve"
    /\ promises[ret.promise].sent \in Tokens
    /\ session = null
    /\ StoresHold(ret.value)
    /\ _permissions # <<>>
    /\ \E q \in DOMAIN promises :
          /\ promises[q].call = "signout"
          /\ promises[q].state = "resolved"
          /\ promises[q].value = true
    /\ \E i \in 1..Len(calls) :
          calls[i].list = "user" /\ calls[i].args = <<ret.value>>

----------------------------------------------------------------------------
(* C29 *)

\* the names of the rights types
C29_Types == { <<"create">>, <<"read">>, <<"update">>, <<"delete">> }

\* C29: the permission map is always well formed: every name maps to a map of
\* ids, every id to a set of rights whose keys are among create, read, update
\* and delete, each with the value true and never false; and after a replace
\* every raw name is a name of the map, also one without ids, and every raw
\* id is an id of the map, with no rights when its raw value is 0.
C29_WellFormed ==
    /\ \A name \in DOMAIN _permissions :
        \A id \in DOMAIN _permissions[name] :
            /\ DOMAIN _permissions[name][id] \subseteq C29_Types
            /\ \A s \in DOMAIN _permissions[name][id] :
                  _permissions[name][id][s] = TRUE
    /\ (op = "update.then" /\ ret.kind = "resolve") =>
        LET raw == IF "permissions" \in DOMAIN ret.value
                   THEN ret.value.permissions ELSE <<>>
        IN  /\ DOMAIN _permissions = DOMAIN raw
            /\ \A name \in DOMAIN raw :
                /\ DOMAIN _permissions[name] = DOMAIN raw[name]
                /\ \A id \in DOMAIN raw[name] :
                      raw[name][id] = 0 => DOMAIN _permissions[name][id] = {}

\* C29 witness: a replace from a raw map with an entry of value 0 and a name
\* without ids left the id with no rights and the name with no ids
C29_Witness ==
    /\ op = "update.then"
    /\ ret.kind = "resolve"
    /\ ret.value \in ShapeUsers
    /\ ret.value.permissions[<<"a">>][<<"b">>] = 0
    /\ DOMAIN ret.value.permissions[<<"a", COLON, "b">>] = {}
    /\ DOMAIN _permissions = { <<"a">>, <<"a", COLON, "b">> }
    /\ DOMAIN _permissions[<<"a">>] = { <<"b">> }
    /\ DOMAIN _permissions[<<"a">>][<<"b">>] = {}
    /\ DOMAIN _permissions[<<"a", COLON, "b">>] = {}

----------------------------------------------------------------------------
(* C30 *)

\* the raw map the last step gave permissionsSet
C30_Raw ==
    LET user == IF op = "update.then" THEN ret.value
                ELSE IF op = "signin.update.then" THEN ret.value.user
                ELSE false
    IN  IF "permissions" \in DOMAIN user THEN user.permissions ELSE <<>>

\* the calls the last step made to observers of the permission map
C30_Calls ==
    SelectSeq(calls, LAMBDA c : c.list \in {"permissions", "rights"})

\* what C30 asks of one step: permissionsSet called with the raw map the
\* step before called it with
C30_Step ==
    (SetRan /\ SetRan' /\ C30_Raw' = C30_Raw) =>
        /\ _permissions' = _permissions
        /\ C30_Calls' = C30_Calls

\* C30: permissionsSet called twice in a row with the same raw map leaves
\* equal permission maps after each call, and every registered observer is
\* passed equal values in the first and in the second call.
C30_SameRawSameMap == [][C30_Step]_vars

\* C30 witness: two user fetches in flight at once have both resolved with
\* the same user, whose permissions are not empty, and the last resolution
\* called an all-permissions observer and an observer of (a, b)
C30_Witness ==
    /\ op = "update.then"
    /\ ret.kind = "resolve"
    /\ \A p \in DOMAIN promises :
          /\ promises[p].call = "update"
          /\ promises[p].state = "resolved"
          /\ promises[p].request = "settled"
          /\ promises[p].value = ret.value
    /\ C30_Raw # <<>>
    /\ Len(C30_Calls) = 2
    /\ C30_Calls[1].list = "permissions"
    /\ C30_Calls[1].args = <<_permissions>>
    /\ C30_Calls[2].list = "rights"
    /\ C30_Calls[2].args = << _permissions[<<"a">>][<<"b">>] >>

----------------------------------------------------------------------------
(* C28 *)

\* what C28 asks of one step: a replace calls every callback that does not
\* unsubscribe once for every registration it had, in each list, when the
\* replace began, whatever the callbacks that unsubscribe themselves did
C28_Step ==
    SetRan' =>
        \A f \in Callbacks :
            /\ Cardinality(CallsTo("user", <<>>, f)') = Occ(_userSubscriptions, f)
            /\ Cardinality(CallsTo("permissions", <<>>, f)')
                  = Occ(_permissionsSubscriptions, f)
            /\ \A k \in KeysOf(_rightsSubscriptions) :
                  Cardinality(CallsTo("rights", k, f)')
                      = Occ(SubsOf(_rightsSubscriptions, k), f)

\* C28: unsubscribing never disturbs a notification in progress: when an
\* observer's callback calls its own unsubscribe while it is notified during
\* a set or permissionsSet, every other observer registered in that list when
\* the replace began still gets that replace's notification exactly once.
C28_SelfUnsubscribeHarmless == [][C28_Step]_vars

----------------------------------------------------------------------------
(* C26 *)

\* C26: between operations every registered callback (user scope,
\* all-permissions scope, a name+id scope without ':' in name and id) holds,
\* as the value passed to it last, the current value of the store for its
\* scope: none is left with a value older than the latest replacement
\* (callbacks that neither subscribe nor unsubscribe while notified).
C26_ObserversCurrent ==
    /\ DOMAIN held = Registered
    /\ \A f \in Callbacks :
        /\ <<"user", <<>>, f>> \in Registered =>
              held[<<"user", <<>>, f>>] = <<_user>>
        /\ <<"permissions", <<>>, f>> \in Registered =>
              held[<<"permissions", <<>>, f>>] = <<_permissions>>
        /\ \A name \in PlainNames, id \in PlainIds :
              <<"rights", Key(name, id), f>> \in Registered =>
                  held[<<"rights", Key(name, id), f>>] = <<Granted(name, id)>>

\* C26 witness: after two user fetches in flight at once, the first resolved
\* without permissions and the last with permissions, a user observer and an
\* observer of (a, b) hold the last user and the rights it grants
C26_Witness ==
    /\ op = "update.then"
    /\ ret.kind = "resolve"
    /\ \A p \in DOMAIN promises :
          promises[p].call = "update" /\ promises[p].state = "resolved"
    /\ \E p \in DOMAIN promises : promises[p].value # ret.value
    /\ Registered = { <<"user", <<>>, <<"f">> >>,
                      <<"rights", Key(<<"a">>, <<"b">>), <<"g">> >> }
    /\ held[<<"user", <<>>, <<"f">> >>] = <<ret.value>>
    /\ held[<<"rights", Key(<<"a">>, <<"b">>), <<"g">> >>] = <<Granted(<<"a">>, <<"b">>)>>
    /\ Granted(<<"a">>, <<"b">>) # <<>>

----------------------------------------------------------------------------
(* C39 *)

\* what C39 asks of one step
C39_Step ==
    op' = "signout.then" =>
        \A p \in DOMAIN promises :
            SignoutThen(p, false) =>
                /\ promises'[p].state = "resolved"
                /\ promises'[p].value = false
                /\ ret' = [kind |-> "resolve", promise |-> p, value |-> false]
                /\ UNCHANGED << session, _user, _permissions >>
                /\ calls' = <<>>

\* C39: when the sign-out request resolves with false, signout() resolves
\* with false, leaves the session token, the user store and the permission
\* map unchanged and invokes no observer.
C39_SignoutFalse == [][C39_Step]_vars

\* C39 witness: a sign-out resolved with false while a user was signed in
\* under a session token, with permissions and a registered user observer
C39_Witness ==
    /\ op = "signout.then"
    /\ ret.value = false
    /\ promises[ret.promise].state = "resolved"
    /\ _user # false
    /\ _permissions # <<>>
    /\ session # null
    /\ Len(_userSubscriptions) > 0
    /\ calls = <<>>

----------------------------------------------------------------------------
(* C34 *)

\* C34: between operations the two stores agree: when the user store holds
\* false the permission map is empty, and when it holds a user u the map is
\* the decoding of u.permissions, empty when u has no permissions field.
C34_StoresAgree ==
    IF _user = false
    THEN _permissions = <<>>
    ELSE LET raw == IF "permissions" \in DOMAIN _user
                    THEN _user.permissions ELSE <<>>
         IN  /\ DOMAIN _permissions = DOMAIN raw
             /\ \A name \in DOMAIN raw :
                   /\ DOMAIN _permissions[name] = DOMAIN raw[name]
                   /\ \A id \in DOMAIN raw[name] :
                         _permissions[name][id] = C8_Rights(raw[name][id])

\* C34 witness: the session was invalidated after a user with permissions
\* had been stored, while another fetch was still in flight
C34_Witness ==
    /\ op = "body.onNoSession"
    /\ _user = false
    /\ \E p \in DOMAIN promises :
          /\ promises[p].state = "resolved"
          /\ promises[p].call = "update"
          /\ "permissions" \in DOMAIN promises[p].value
    /\ \E p \in DOMAIN promises : promises[p].request = "inflight"

----------------------------------------------------------------------------
(* C31 *)

\* the (name, id) pairs of the observers in NextKeys
C31_Pairs ==
    { << <<"a", COLON, "b">>, <<"b">> >>, << <<"a">>, <<"b", COLON, "b">> >>,
      << <<"a">>, <<"b">> >> }

\* the pairs (n, i) of strings without ':' that are the first two of the
\* ':'-separated segments of k
C31_FirstTwo(k) ==
    { pr \in { <<"a">>, <<"b">>, RIGHTS_ALL_ID } \X { <<"a">>, <<"b">>, RIGHTS_ALL_ID } :
        \/ k = pr[1] \o <<":">> \o pr[2]
        \/ /\ Len(k) > Len(pr[1]) + Len(pr[2]) + 1
           /\ SubSeq(k, 1, Len(pr[1]) + Len(pr[2]) + 2)
                  = pr[1] \o <<":">> \o pr[2] \o <<":">> }

\* what one step does with the keys
C31_Step ==
    /\ \A callback \in Callbacks, pr \in C31_Pairs :
          PermissionsSubscribe(callback, pr[1], pr[2]) =>
              LET k == pr[1] \o <<":">> \o pr[2]
              IN  /\ KeysOf(_rightsSubscriptions')
                        = KeysOf(_rightsSubscriptions) \cup {k}
                  /\ ListAt(_rightsSubscriptions', k)
                        = Append(ListAt(_rightsSubscriptions, k), callback)
    /\ op' \in {"update.then", "body.onNoSession"} =>
          \A n \in 1..Len(calls') :
              calls'[n].list = "rights" =>
                  \E pr \in C31_FirstTwo(calls'[n].key) :
                      calls'[n].args =
                          << IF /\ pr[1] \in DOMAIN _permissions'
                                /\ pr[2] \in DOMAIN _permissions'[pr[1]]
                             THEN _permissions'[pr[1]][pr[2]]
                             ELSE <<>> >>

\* C31: the scoped registry key of (name, id) is the unescaped concatenation
\* name + ':' + id, so pairs with equal concatenations share one observer
\* list, and permissionsSet gives an observer the value found under the first
\* two ':'-separated segments of its key, not under its own (name, id).
C31_KeysUnescaped == [][C31_Step]_vars

\* C31 witness: f, subscribed to (a:b, b), and g, subscribed to (a, b:b),
\* share the list of key a:b:b, and a replace passed f the rights of (a, b)
\* while the map holds other rights under (a:b, b)
C31_Witness ==
    /\ op = "update.then"
    /\ ListAt(_rightsSubscriptions, <<"a", ":", "b", ":", "b">>)
          \in { << <<"f">>, <<"g">> >>, << <<"g">>, <<"f">> >> }
    /\ Len(_rightsSubscriptions) = 1
    /\ <<"a", ":", "b">> \in DOMAIN _permissions
    /\ \E n \in 1..Len(calls) :
          /\ calls[n].list = "rights"
          /\ calls[n].f = <<"f">>
          /\ calls[n].args = << _permissions[<<"a">>][<<"b">>] >>
          /\ calls[n].args # << _permissions[<<"a", ":", "b">>][<<"b">>] >>

----------------------------------------------------------------------------
(* C38 *)

\* the permission map a callback reading it during call i of the step sees
C38_Seen(i) == IF replaced'[i] THEN _permissions' ELSE _permissions

\* the order of the calls of one replace
C38_Step ==
    op' \in {"update.then", "signout.then", "body.onNoSession"} =>
        \A i \in 1..Len(calls') :
            /\ calls'[i].list = "user" =>
                  /\ ~replaced'[i]
                  /\ C38_Seen(i) = _permissions
                  /\ \A j \in 1..Len(calls') :
                        calls'[j].list \in {"permissions", "rights"} => i < j
            /\ calls'[i].list = "permissions" =>
                  \A j \in 1..Len(calls') : calls'[j].list = "rights" => i < j

\* C38: in update(), signout() and the session-invalidated handler every user
\* callback is invoked before the permission map is replaced and before any
\* permission callback, so it still reads the previous map; within
\* permissionsSet every all-permissions callback is invoked before any scoped
\* callback.
C38_UserFirst == [][C38_Step]_vars

\* C38 witness: a fetch called a user callback before the map was assigned,
\* then an all-permissions and a scoped callback after it, with a map that
\* holds permissions
C38_Witness ==
    /\ op = "update.then"
    /\ Len(calls) = 3
    /\ calls[1].list = "user"
    /\ calls[2].list = "permissions"
    /\ calls[3].list = "rights"
    /\ replaced = <<FALSE, TRUE, TRUE>>
    /\ calls[2].args = <<_permissions>>
    /\ _permissions # <<>>

----------------------------------------------------------------------------
(* C32 *)

\* a list without the entry a subscribe pushed onto it
C32_Before(subs) == SubSeq(subs, 1, Len(subs) - 1)

\* a handle's unsubscribe(), called right after the subscribe that returned
\* the handle, leaves the lists as they were before that subscribe; the list
\* the subscribe pushed onto is the one its immediate call names
C32_Step ==
    (op \in {"subscribe", "permissionsSubscribe"} /\ ret.kind = "handle"
        /\ HandleUnsubscribe) =>
        LET list == calls[1].list
            key  == calls[1].key
        IN  /\ _userSubscriptions' =
                  IF list = "user" THEN C32_Before(_userSubscriptions)
                  ELSE _userSubscriptions
            /\ _permissionsSubscriptions' =
                  IF list = "permissions"
                  THEN C32_Before(_permissionsSubscriptions)
                  ELSE _permissionsSubscriptions
            /\ \A k \in KeysOf(_rightsSubscriptions) :
                  ListAt(_rightsSubscriptions', k) =
                      IF list = "rights" /\ k = key
                      THEN C32_Before(ListAt(_rightsSubscriptions, k))
                      ELSE ListAt(_rightsSubscriptions, k)
            /\ KeysOf(_rightsSubscriptions') =
                  { k \in KeysOf(_rightsSubscriptions) :
                      ~(list = "rights" /\ k = key
                        /\ Len(ListAt(_rightsSubscriptions, k)) = 1) }

\* C32: for every scope (user; all permissions; name only; name and id,
\* RIGHTS_ALL_ID included) subscribing a callback and then calling the
\* unsubscribe() of the returned handle removes that registration: every
\* observer list and registry key set is as it was before the subscribe.
C32_HandleUndoesSubscribe == [][C32_Step]_vars

----------------------------------------------------------------------------
(* C33 *)

\* C33: when every request issued on behalf of an update(), signin() or
\* signout() call settles, the promise the call returned eventually resolves
\* or rejects, also when a request resolves with a falsy value, when the
\* fetch fails with an error that carries a handle function, and when the
\* fetch nested in signin rejects.
C33_PromiseSettles ==
    \A p \in 1..MaxPromises :
        (promises[p].request = "inflight")
            ~> (promises[p].state \in {"resolved", "rejected"})

----------------------------------------------------------------------------
(* C35 *)

\* a write to the resolved user object leaves the store's value, which is
\* what later subscribe calls deliver a copy of, as it was
C35_Step == MutateResolved => _user' = _user

\* C35: the user object update() and signin() resolve with is not the store's
\* internal value: mutating it after the resolution changes neither what the
\* user store holds nor what later subscribe calls deliver.
C35_ResolvedIsCopy == [][C35_Step]_vars

----------------------------------------------------------------------------
(* C36 *)

\* a replace ends without an error and has called every observer of the
\* permissions that is registered when it ends
C36_Step ==
    (op' = "body.onNoSession" \/ (op' = "update.then" /\ calls' # <<>>)) =>
        /\ ret'.kind # "throw"
        /\ \A t \in Registered' :
              t[1] \in {"permissions", "rights"} =>
                  \E n \in 1..Len(calls') :
                      /\ calls'[n].list = t[1]
                      /\ calls'[n].key = t[2]
                      /\ calls'[n].f = t[3]

\* C36: permissionsSet completes without raising an error and notifies every
\* observer still registered, also when a callback notified during the
\* fan-out unsubscribes another observer, the last observer of a scoped key
\* that has not been visited yet included.
C36_RemovalHarmless == [][C36_Step]_vars

----------------------------------------------------------------------------
(* C37 *)

\* the calls of the step from the list to g
C37_Deliveries(list) ==
    { n \in 1..Len(calls') : calls'[n].list = list /\ calls'[n].f = <<"g">> }

\* g, subscribed during a replace to the list being walked, is called once
C37_Step ==
    op' \in {"body.onNoSession", "update.then"} =>
        /\ (indexOf(_userSubscriptions, <<"g">>) = -1
              /\ indexOf(_userSubscriptions', <<"g">>) > -1) =>
                Cardinality(C37_Deliveries("user")) = 1
        /\ (indexOf(_permissionsSubscriptions, <<"g">>) = -1
              /\ indexOf(_permissionsSubscriptions', <<"g">>) > -1) =>
                Cardinality(C37_Deliveries("permissions")) = 1

\* C37: a callback subscribed from inside another observer's notification,
\* during the fan-out of set or permissionsSet over the same list, receives
\* the current value exactly once for that replacement: the immediate
\* delivery of subscribe, and no second one from the fan-out in progress.
C37_SubscribedOnce == [][C37_Step]_vars

=============================================================================
